---- MODULE Spec2Model ----
(***************************************************************************)
(* Judge builder: the caching layer (server/services/cache_service.py),    *)
(* the evaluation coordinator and the alignment workflow                   *)
(* (server/services/alignment_service.py) and the judge's optimize step    *)
(* (server/judges/custom_prompt_judge.py).                                 *)
(*                                                                         *)
(* Strings are sequences of character codes, so that sorting and joining   *)
(* trace ids behave as they do on Python strings.  Request handlers are    *)
(* 'async def' functions that call the blocking service code without       *)
(* awaiting, so one handler runs at a time; remote collaborators (tracking *)
(* backend, labeling service, optimizer, judge registry) answer            *)
(* nondeterministically.                                                   *)
(*                                                                         *)
(* Spec is the alignment workflow together with direct evaluation and test *)
(* requests; SpecEval is direct evaluation with cache entries that expire  *)
(* and trace fetches that fail; SpecSearch is direct evaluation with a     *)
(* remote search that always answers; SpecAlign is the alignment workflow  *)
(* with trace fetches that fail; SpecCompare is get_alignment_comparison   *)
(* after a first alignment; SpecFP is compute_dataset_version applied to   *)
(* pairs of trace-id lists; SpecMetrics is the confusion matrix and its    *)
(* rates on label sequences; SpecKeys is invalidate_judge_evaluations on   *)
(* keys of several judges; SpecCache is the two caches with their clock,   *)
(* their lifetimes and their capacities; SpecOptimize is                   *)
(* CustomPromptJudge.optimize on its own; SpecAligned is an alignment      *)
(* followed by get_alignment_comparison.                                   *)
(***************************************************************************)
EXTENDS FiniteSets, Integers, Sequences, TLC

VARIABLES
    judges,            \* judge_service._judges: judge id -> judge instance
    trace_cache,       \* CacheService.trace_cache, oldest insertion first (SpecCache: least recently used first)
    evaluation_cache,  \* CacheService.evaluation_cache, in the same order
    runs,              \* evaluation runs of the tracking backend, oldest first
    assess,            \* tracking backend: judge feedbacks attached per trace
    pc,                \* position of the request being handled
    inv,               \* locals of the run_alignment invocation in progress
    last_eval,         \* what the most recent evaluate_judge call did
    world,             \* what can go wrong outside: failing fetches, expiring entries, failing searches; the clock
    fp,                \* inputs and outputs of compute_dataset_version calls
    last_call          \* the most recent direct call: what it was given and what it answered

vars == <<judges, trace_cache, evaluation_cache, runs, assess,
          pc, inv, last_eval, world, fp, last_call>>

-----------------------------------------------------------------------------
(* Bounds of the model *)

\* labeled examples in the labeling session of judge "j1"
NumExamples == 10
\* largest labeled-example count the labeling service reports
MaxLabeled == 10
\* alignments are started only below this judge version
MaxVersion == 3
\* evaluation runs the tracking backend accepts
MaxRuns == 2
\* longest trace-id list handed to compute_dataset_version on its own
MaxFpLen == 2
\* longest label sequence handed to calculate_confusion_matrix
MaxLabels == 3
\* entries the trace cache holds at most where its capacity is reached (in
\* place of maxsize=1000)
MaxTraceEntries == 2

(* Program constants *)
MIN_EXAMPLES_FOR_OPTIMIZATION == 10
\* TTLCache(maxsize=1000, ttl=1800), TTLCache(maxsize=500, ttl=3600)
TRACE_TTL == 1800
EVALUATION_TTL == 3600

-----------------------------------------------------------------------------
(* Python strings and lists *)

\* str.__lt__: code point order, a proper prefix sorts first
RECURSIVE StrLess(_, _)
StrLess(s, t) ==
    IF s = <<>> THEN t # <<>>
    ELSE IF t = <<>> THEN FALSE
    ELSE IF Head(s) # Head(t) THEN Head(s) < Head(t)
    ELSE StrLess(Tail(s), Tail(t))

RECURSIVE InsertSorted(_, _)
InsertSorted(x, l) ==
    IF l = <<>> THEN <<x>>
    ELSE IF StrLess(x, Head(l)) THEN <<x>> \o l
    ELSE <<Head(l)>> \o InsertSorted(x, Tail(l))

\* sorted(trace_ids): every entry of the list is kept, repeated ones included
RECURSIVE sorted(_)
sorted(l) == IF l = <<>> THEN <<>> ELSE InsertSorted(Head(l), sorted(Tail(l)))

\* ''.join(l)
RECURSIVE join(_)
join(l) == IF l = <<>> THEN <<>> ELSE Head(l) \o join(Tail(l))

\* hashlib.sha256(s).hexdigest()[:8], taken to be collision-free: distinct
\* inputs give distinct digests, equal inputs the same digest.
sha256_hexdigest8(s) == <<256>> \o s

\* the characters of the judge ids in use
chars(judge_id) ==
    CASE judge_id = "j0" -> <<106, 48>>
      [] judge_id = "j1" -> <<106, 49>>
      [] judge_id = "j2" -> <<106, 50>>
      [] judge_id = "j3" -> <<106, 51>>
      [] judge_id = "j4" -> <<106, 52>>
      [] judge_id = "j10" -> <<106, 49, 48>>
      [] OTHER -> <<>>

\* str(n) for an integer
RECURSIVE str(_)
str(n) ==
    IF n < 0 THEN <<45>> \o str(0 - n)
    ELSE IF n < 10 THEN <<48 + n>>
    ELSE str(n \div 10) \o <<48 + (n % 10)>>

\* s.startswith(prefix)
startswith(s, prefix) ==
    Len(s) >= Len(prefix) /\ SubSeq(s, 1, Len(prefix)) = prefix

Range(l) == {l[i] : i \in 1..Len(l)}

-----------------------------------------------------------------------------
(* CacheService.compute_dataset_version *)

compute_dataset_version(trace_ids) ==
    LET sorted_trace_ids == sorted(trace_ids)
        hash_input == join(sorted_trace_ids)
    IN  sha256_hexdigest8(hash_input)

-----------------------------------------------------------------------------
(* cachetools.TTLCache as CacheService uses it: a list of (key, value)     *)
(* entries, oldest insertion first.  Entries leave by deletion or when     *)
(* their time-to-live has elapsed, the oldest insertion first.             *)

CacheKeys(c) == {c[i].key : i \in 1..Len(c)}

\* key in cache
CacheHas(c, k) == k \in CacheKeys(c)

\* cache[key]
CacheGet(c, k) == c[CHOOSE i \in 1..Len(c) : c[i].key = k].value

\* del cache[key]
CacheDel(c, k) == SelectSeq(c, LAMBDA e : e.key # k)

\* cache[key] = value: the entry is (re)inserted with a fresh lifetime
CacheSet(c, k, v) == Append(CacheDel(c, k), [key |-> k, value |-> v])

\* The time-to-live of the oldest entry has elapsed
Expire(c) == Tail(c)

-----------------------------------------------------------------------------
(* CacheService: traces *)

NoTrace == [found |-> FALSE, id |-> <<>>, gen |-> 0]

\* mlflow.get_trace(trace_id): the trace as the backend holds it now, with
\* the judge feedback attached to it so far
BackendTrace(assessNow, trace_id) ==
    [found |-> TRUE, id |-> trace_id, gen |-> assessNow[trace_id]]

\* a variant of get_trace whose backend fetch always answers
get_trace_always_fetching(tc, assessNow, trace_id, unfetchable) ==
    IF CacheHas(tc, trace_id)
    THEN [cache |-> tc,
          trace |-> [found |-> TRUE, id |-> trace_id, gen |-> CacheGet(tc, trace_id)]]
    ELSE [cache |-> CacheSet(tc, trace_id, assessNow[trace_id]),
          trace |-> BackendTrace(assessNow, trace_id)]

\* get_trace, with the backend fetch failing for the ids in unfetchable.
\* Returns the cache afterwards and the trace (NoTrace for None).
get_trace(tc, assessNow, trace_id, unfetchable) ==
    IF CacheHas(tc, trace_id)
    THEN [cache |-> tc,
          trace |-> [found |-> TRUE, id |-> trace_id, gen |-> CacheGet(tc, trace_id)]]
    ELSE IF trace_id \in unfetchable \/ trace_id \notin DOMAIN assessNow
    THEN [cache |-> tc, trace |-> NoTrace]
    ELSE [cache |-> CacheSet(tc, trace_id, assessNow[trace_id]),
          trace |-> BackendTrace(assessNow, trace_id)]

\* for trace_id in ids: trace = cache_service.get_trace(trace_id);
\* if trace: traces.append(trace)
RECURSIVE FetchTraces(_, _, _, _, _)
FetchTraces(tc, assessNow, ids, unfetchable, acc) ==
    IF ids = <<>> THEN [cache |-> tc, traces |-> acc]
    ELSE LET got == get_trace(tc, assessNow, Head(ids), unfetchable)
         IN  FetchTraces(got.cache, assessNow, Tail(ids), unfetchable,
                         IF got.trace.found THEN Append(acc, got.trace) ELSE acc)

\* a variant of invalidate_trace that leaves the entry where it is
invalidate_nothing(tc, trace_id) == tc

\* invalidate_trace
invalidate_trace(tc, trace_id) ==
    IF CacheHas(tc, trace_id) THEN CacheDel(tc, trace_id) ELSE tc

\* a variant of invalidate_traces that removes nothing
invalidate_no_traces(tc, trace_ids) == tc

\* a variant of invalidate_traces that clears the whole trace cache
invalidate_everything(tc, trace_ids) == <<>>

\* invalidate_traces
RECURSIVE invalidate_traces(_, _)
invalidate_traces(tc, trace_ids) ==
    IF trace_ids = <<>> THEN tc
    ELSE invalidate_traces(
             IF CacheHas(tc, Head(trace_ids)) THEN CacheDel(tc, Head(trace_ids)) ELSE tc,
             Tail(trace_ids))

-----------------------------------------------------------------------------
(* CacheService: evaluation run ids.  Run ids are the positions of the     *)
(* runs in the backend's list; NoRun stands for None / the empty string.   *)

NoRun == 0

\* f'{judge_id}:{judge_version}:{dataset_version}'
CacheKey(judge_id, judge_version, dataset_version) ==
    chars(judge_id) \o <<58>> \o str(judge_version) \o <<58>> \o dataset_version

\* mlflow.search_runs in the experiment with the three tag filters; newest
\* run first
MatchingRuns(rs, judge_id, judge_version, experiment_id, dataset_version) ==
    {i \in 1..Len(rs) : /\ rs[i].experiment_id = experiment_id
                        /\ rs[i].judge_id = judge_id
                        /\ rs[i].judge_version = judge_version
                        /\ rs[i].dataset_version = dataset_version}

Max(S) == CHOOSE x \in S : \A y \in S : y <= x

\* a variant of find_evaluation_run that empties the evaluation cache when
\* the search raises
find_evaluation_run_dropping_cache(ec, rs, judge_id, judge_version, experiment_id, dataset_version, search_ok) ==
    LET found == MatchingRuns(rs, judge_id, judge_version, experiment_id, dataset_version)
    IN  IF ~search_ok THEN [cache |-> <<>>, run_id |-> NoRun]
        ELSE IF found # {}
        THEN [cache |-> CacheSet(ec, CacheKey(judge_id, judge_version, dataset_version),
                                 Max(found)),
              run_id |-> Max(found)]
        ELSE [cache |-> ec, run_id |-> NoRun]

\* a variant of find_evaluation_run that returns the run it finds without
\* writing it into the evaluation cache
find_evaluation_run_without_caching(ec, rs, judge_id, judge_version, experiment_id, dataset_version, search_ok) ==
    LET found == MatchingRuns(rs, judge_id, judge_version, experiment_id, dataset_version)
    IN  IF search_ok /\ found # {}
        THEN [cache |-> ec, run_id |-> Max(found)]
        ELSE [cache |-> ec, run_id |-> NoRun]

\* find_evaluation_run; search_ok is FALSE when mlflow.search_runs raises
find_evaluation_run(ec, rs, judge_id, judge_version, experiment_id, dataset_version, search_ok) ==
    LET found == MatchingRuns(rs, judge_id, judge_version, experiment_id, dataset_version)
    IN  IF ~search_ok THEN [cache |-> ec, run_id |-> NoRun]
        ELSE IF found # {}
        THEN [cache |-> CacheSet(ec, CacheKey(judge_id, judge_version, dataset_version),
                                 Max(found)),
              run_id |-> Max(found)]
        ELSE [cache |-> ec, run_id |-> NoRun]

\* a variant of get_evaluation_run_id that goes to the remote search without
\* looking into the evaluation cache
get_evaluation_run_id_uncached(ec, rs, judge_id, judge_version, trace_ids, experiment_id, search_ok) ==
    LET search == find_evaluation_run(ec, rs, judge_id, judge_version, experiment_id,
                                      compute_dataset_version(trace_ids), search_ok)
    IN  IF experiment_id # ""
        THEN [cache |-> search.cache, run_id |-> search.run_id, searched |-> TRUE]
        ELSE [cache |-> ec, run_id |-> NoRun, searched |-> FALSE]

\* get_evaluation_run_id
get_evaluation_run_id(ec, rs, judge_id, judge_version, trace_ids, experiment_id, search_ok) ==
    LET dataset_version == compute_dataset_version(trace_ids)
        cache_key == CacheKey(judge_id, judge_version, dataset_version)
        search == find_evaluation_run(ec, rs, judge_id, judge_version, experiment_id,
                                      dataset_version, search_ok)
    IN  IF CacheHas(ec, cache_key)
        THEN [cache |-> ec, run_id |-> CacheGet(ec, cache_key), searched |-> FALSE]
        ELSE IF experiment_id # ""
        THEN [cache |-> search.cache, run_id |-> search.run_id, searched |-> TRUE]
        ELSE [cache |-> ec, run_id |-> NoRun, searched |-> FALSE]

\* cache_evaluation_run_id
cache_evaluation_run_id(ec, judge_id, judge_version, trace_ids, run_id) ==
    CacheSet(ec, CacheKey(judge_id, judge_version, compute_dataset_version(trace_ids)),
             run_id)

-----------------------------------------------------------------------------
(* The world around the services *)

JudgeIds == {"j1", "j2"}
\* an id no judge has
MissingJudge == "j0"

\* trace ids: one-character strings
TraceId(i) == <<i>>
OtherTrace == TraceId(0)
\* labeling_service.get_examples(judge_id): the trace ids of the labeling
\* session; the session of "j2" is empty, that of "j3" has one trace, that
\* of "j4" has the traces of "j1" and one the backend no longer has
Examples(judge_id) ==
    CASE judge_id = "j1" -> [i \in 1..NumExamples |-> TraceId(i)]
      [] judge_id = "j3" -> <<TraceId(1)>>
      [] judge_id = "j4" -> [i \in 1..(NumExamples + 1) |-> TraceId(i)]
      [] OTHER -> <<>>
AllTraces == {OtherTrace} \cup Range(Examples("j1"))
\* traces whose backend fetch may fail
Flaky == {TraceId(1)}
\* direct evaluation requests: judge id and trace-id list
EvalRequests == {<<"j1", Examples("j1")>>, <<MissingJudge, <<OtherTrace>>>>}
\* single-trace test requests: judge id and trace id
TestRequests == {<<"j2", OtherTrace>>}
\* labeling_service.get_labeling_progress(judge_id).labeled_examples
LabeledCounts == {3} \cup ((MIN_EXAMPLES_FOR_OPTIMIZATION - 1)..MaxLabeled)

\* DEFAULT_JUDGE_PROMPT_TEMPLATE.format(system_instructions=...)
DefaultPrompt(instructions) == [template |-> "default", instructions |-> instructions]
\* OPTIMIZED_JUDGE_PROMPT_TEMPLATE.format(system_instructions=...)
OptimizedPrompt(instructions) == [template |-> "optimized", instructions |-> instructions]
\* what optimizer.run_optimization can do: raise, or return an optimized prompt
OptimizerOutcomes == {[raised |-> TRUE, optimized_prompt |-> OptimizedPrompt("")],
                      [raised |-> FALSE, optimized_prompt |-> OptimizedPrompt("opt")]}

\* CustomPromptJudge.__init__ as judge_service creates it
NewJudge(version, instructions, experiment_id, labeling_run_id) ==
    [version |-> version,
     prompt_template |-> DefaultPrompt(instructions),
     experiment_id |-> experiment_id,
     labeling_run_id |-> labeling_run_id,
     optimizer |-> TRUE]

\* judge_service.get_judge(judge_id): the JudgeResponse, or None
get_judge(js, judge_id) ==
    IF judge_id \in DOMAIN js
    THEN [found |-> TRUE, id |-> judge_id, version |-> js[judge_id].version,
          experiment_id |-> js[judge_id].experiment_id,
          labeling_run_id |-> js[judge_id].labeling_run_id]
    ELSE [found |-> FALSE, id |-> judge_id, version |-> 0,
          experiment_id |-> "", labeling_run_id |-> ""]

\* judge_service.create_new_version(judge_id, instructions): a new judge
\* instance with version + 1 takes the place of the current one
create_new_version(js, judge_id, instructions) ==
    [js EXCEPT ![judge_id] = NewJudge(js[judge_id].version + 1, instructions,
                                      js[judge_id].experiment_id,
                                      js[judge_id].labeling_run_id)]

-----------------------------------------------------------------------------
(* CustomPromptJudge.optimize *)

\* a variant of optimize that assigns the prompt before it knows whether the
\* optimizer has raised
optimize_assigning_first(judge, traces, outcome) ==
    IF Len(traces) < MIN_EXAMPLES_FOR_OPTIMIZATION \/ ~judge.optimizer
    THEN [judge |-> judge, success |-> FALSE, called |-> FALSE, error |-> ""]
    ELSE [judge |-> [judge EXCEPT !.prompt_template = outcome.optimized_prompt],
          success |-> ~outcome.raised, called |-> TRUE, error |-> ""]

\* a variant of optimize that does not look at the number of traces
optimize_without_threshold(judge, traces, outcome) ==
    IF ~judge.optimizer
    THEN [judge |-> judge, success |-> FALSE, called |-> FALSE, error |-> ""]
    ELSE IF outcome.raised
    THEN [judge |-> judge, success |-> FALSE, called |-> TRUE, error |-> ""]
    ELSE [judge |-> [judge EXCEPT !.prompt_template = outcome.optimized_prompt],
          success |-> TRUE, called |-> TRUE, error |-> ""]

\* Returns the judge afterwards, the boolean result, whether the optimizer
\* collaborator was called, and the exception that leaves the method (none:
\* whatever the optimizer raises is caught and answered with False).
optimize(judge, traces, outcome) ==
    IF Len(traces) < MIN_EXAMPLES_FOR_OPTIMIZATION
    THEN [judge |-> judge, success |-> FALSE, called |-> FALSE, error |-> ""]
    ELSE IF ~judge.optimizer
    THEN [judge |-> judge, success |-> FALSE, called |-> FALSE, error |-> ""]
    ELSE IF outcome.raised
    THEN [judge |-> judge, success |-> FALSE, called |-> TRUE, error |-> ""]
    ELSE [judge |-> [judge EXCEPT !.prompt_template = outcome.optimized_prompt],
          success |-> TRUE, called |-> TRUE, error |-> ""]

-----------------------------------------------------------------------------
(* AlignmentService.evaluate_judge *)

\* a variant of FailedEvaluation that reports the requested judge at
\* version 1
FailedEvaluationWithVersion(judge_id) ==
    [judge_id |-> judge_id, judge_version |-> 1, mlflow_run_id |-> NoRun,
     total_traces |-> 0]

\* the except branch: the result returned after any failure
FailedEvaluation(judge_id) ==
    [judge_id |-> judge_id, judge_version |-> 0, mlflow_run_id |-> NoRun,
     total_traces |-> 0]

\* mlflow.genai.evaluate attaches one judge feedback to every evaluated trace
AttachFeedback(assessNow, traces) ==
    [t \in DOMAIN assessNow |->
        IF \E i \in 1..Len(traces) : traces[i].id = t
        THEN assessNow[t] + 1 ELSE assessNow[t]]

\* what the collaborators do during one evaluate_judge call: whether
\* mlflow.search_runs answers, whether the scorer is found, whether
\* mlflow.start_run answers, whether the executor finishes, and which trace
\* fetches fail
EvalEnvs == [search_ok : BOOLEAN, scorer_ok : BOOLEAN,
             run_ok : BOOLEAN, exec_ok : BOOLEAN, unfetchable : SUBSET Flaky]
\* the backend starts no run beyond MaxRuns
EnvsNow == {env \in EvalEnvs : /\ Len(runs) >= MaxRuns => ~env.run_ok
                               /\ ~world.search_fails => env.search_ok
                               /\ env.unfetchable \subseteq world.flaky}

\* The whole call on the state (judges js, caches tc and ec, backend runs rs
\* and feedback counts assessNow).  A run records how many traces the
\* executor was given (eval_data).  found: the run id the cache lookup
\* returned; executed: whether the executor was invoked; created: whether a
\* run was started.
evaluate_judge(js, tc, ec, rs, assessNow, judge_id, trace_ids, env) ==
    LET judge == get_judge(js, judge_id)
        look == get_evaluation_run_id(ec, rs, judge_id, judge.version, trace_ids,
                                      judge.experiment_id, env.search_ok)
        got == FetchTraces(tc, assessNow, trace_ids, env.unfetchable, <<>>)
        run == [experiment_id |-> judge.experiment_id,
                judge_id |-> judge_id, judge_version |-> judge.version,
                dataset_version |-> compute_dataset_version(trace_ids),
                finished |-> env.exec_ok,
                evaluated |-> Len(got.traces)]
        run_id == Len(rs) + 1
        failed(tc2, ec2, rs2, created, executed) ==
            [trace_cache |-> tc2, evaluation_cache |-> ec2, runs |-> rs2,
             assess |-> assessNow, result |-> FailedEvaluation(judge_id),
             found |-> NoRun, created |-> created, executed |-> executed]
    IN  IF ~judge.found THEN failed(tc, ec, rs, FALSE, FALSE)
        ELSE IF look.run_id # NoRun
        THEN [trace_cache |-> tc, evaluation_cache |-> look.cache, runs |-> rs,
              assess |-> assessNow,
              result |-> [judge_id |-> judge_id, judge_version |-> judge.version,
                          mlflow_run_id |-> look.run_id,
                          total_traces |-> Len(trace_ids)],
              found |-> look.run_id, created |-> FALSE, executed |-> FALSE]
        ELSE IF ~env.scorer_ok THEN failed(tc, look.cache, rs, FALSE, FALSE)
        ELSE IF got.traces = <<>> THEN failed(got.cache, look.cache, rs, FALSE, FALSE)
        ELSE IF ~env.run_ok THEN failed(got.cache, look.cache, rs, FALSE, FALSE)
        ELSE IF ~env.exec_ok
        THEN failed(got.cache, look.cache, Append(rs, run), TRUE, TRUE)
        ELSE [trace_cache |-> got.cache,
              evaluation_cache |->
                  cache_evaluation_run_id(look.cache, judge_id, judge.version,
                                          trace_ids, run_id),
              runs |-> Append(rs, run),
              assess |-> AttachFeedback(assessNow, got.traces),
              result |-> [judge_id |-> judge_id, judge_version |-> judge.version,
                          mlflow_run_id |-> run_id,
                          total_traces |-> Len(got.traces)],
              found |-> NoRun, created |-> TRUE, executed |-> TRUE]

-----------------------------------------------------------------------------
(* Requests.  pc = "Idle" between requests.  An alignment request walks    *)
(* through run_alignment one collaborator call at a time; inv holds its    *)
(* locals, the steps it has started and what it has done so far.           *)

NoResponse == [status |-> 0, error |-> "", detail |-> <<>>, success |-> FALSE,
               judge_id |-> "", new_version |-> 0]

\* a variant of Raised that answers 500 to every exception
RaisedAsInternalError(error, detail) ==
    [status |-> 500, error |-> error, detail |-> detail, success |-> FALSE,
     judge_id |-> "", new_version |-> 0]

\* routers/alignment.py: ValueError -> 404, any other exception -> 500
Raised(error, detail) ==
    [status |-> IF error = "ValueError" THEN 404 ELSE 500,
     error |-> error, detail |-> detail, success |-> FALSE,
     judge_id |-> "", new_version |-> 0]

IdleInv ==
    [judge_id |-> "", current_version |-> 0, prompt0 |-> DefaultPrompt(""),
     traces |-> <<>>, trace_ids |-> <<>>, fresh_traces |-> <<>>,
     labeled |-> 0, optimization_success |-> FALSE, new_version |-> 0,
     steps |-> <<>>, optimizer_calls |-> 0, versions_created |-> 0,
     invalidated |-> <<>>, evaluations |-> <<>>, calls |-> <<>>, tag |-> <<>>,
     response |-> NoResponse]

NoEval == [judge_id |-> "", judge_version |-> 0, trace_ids |-> <<>>,
           found |-> NoRun, created |-> FALSE, executed |-> FALSE,
           result |-> FailedEvaluation(""), status |-> 0]

\* no direct call has been made since the last response
NoCall == [op |-> ""]

\* the record of one evaluate_judge call; evaluate_judge raises nothing, so
\* the endpoint answers 200 with whatever result it returned
EvalRecord(js, judge_id, trace_ids, out) ==
    [judge_id |-> judge_id, judge_version |-> get_judge(js, judge_id).version,
     trace_ids |-> trace_ids, found |-> out.found, created |-> out.created,
     executed |-> out.executed, result |-> out.result, status |-> 200]

\* a variant of StepAfter with the baseline evaluation ahead of the
\* sufficiency check
StepAfterBaselineFirst(step) ==
    CASE step = "FetchingExamples" -> "EvaluatingBaseline"
      [] step = "EvaluatingBaseline" -> "CheckingSufficiency"
      [] step = "CheckingSufficiency" -> "Invalidating1"
      [] step = "Invalidating1" -> "Refetching"
      [] step = "Refetching" -> "Optimizing"
      [] step = "Optimizing" -> "CreatingVersion"
      [] step = "CreatingVersion" -> "EvaluatingNew"
      [] step = "EvaluatingNew" -> "Invalidating2"
      [] step = "Invalidating2" -> "TaggingRun"
      [] step = "TaggingRun" -> "Done"

\* The order in which run_alignment goes through its steps when nothing fails
StepAfter(step) ==
    CASE step = "FetchingExamples" -> "CheckingSufficiency"
      [] step = "CheckingSufficiency" -> "EvaluatingBaseline"
      [] step = "EvaluatingBaseline" -> "Invalidating1"
      [] step = "Invalidating1" -> "Refetching"
      [] step = "Refetching" -> "Optimizing"
      [] step = "Optimizing" -> "CreatingVersion"
      [] step = "CreatingVersion" -> "EvaluatingNew"
      [] step = "EvaluatingNew" -> "Invalidating2"
      [] step = "Invalidating2" -> "TaggingRun"
      [] step = "TaggingRun" -> "Done"

Started(step) == [inv EXCEPT !.steps = Append(@, step)]

Fail(i, error, detail) == [i EXCEPT !.response = Raised(error, detail)]

Init ==
    /\ judges = [j \in JudgeIds |->
                    NewJudge(1, "user", "exp", IF j = "j1" THEN "lr1" ELSE "")]
    /\ trace_cache = <<>>
    /\ evaluation_cache = <<>>
    /\ runs = <<>>
    /\ assess = [t \in AllTraces |-> 0]
    /\ pc = "Idle"
    /\ inv = IdleInv
    /\ last_eval = NoEval
    /\ world = [flaky |-> {}, ttl |-> FALSE, search_fails |-> TRUE]
    /\ fp = <<>>
    /\ last_call = NoCall

\* POST /{judge_id}/align: run_alignment starts and looks the judge up
StartAlignment(judge_id) ==
    /\ pc = "Idle"
    /\ judge_id \in DOMAIN judges => judges[judge_id].version < MaxVersion
    /\ LET current_judge == get_judge(judges, judge_id)
           i == [IdleInv EXCEPT !.judge_id = judge_id,
                                !.current_version = current_judge.version,
                                !.prompt0 = IF current_judge.found
                                            THEN judges[judge_id].prompt_template
                                            ELSE DefaultPrompt("")]
       IN  IF ~current_judge.found
           THEN /\ pc' = "Failed"
                /\ inv' = Fail(i, "ValueError", <<"Judge not found">>)
           ELSE /\ pc' = "FetchingExamples"
                /\ inv' = i
    /\ UNCHANGED <<judges, trace_cache, evaluation_cache, runs, assess,
                   last_eval, world, fp, last_call>>

\* labeling_service.get_examples and the get_trace loop
FetchExamples ==
    /\ pc = "FetchingExamples"
    /\ \E unfetchable \in SUBSET world.flaky :
        LET got == FetchTraces(trace_cache, assess, Examples(inv.judge_id),
                               unfetchable, <<>>)
            i == [Started("FetchingExamples") EXCEPT !.traces = got.traces]
        IN  /\ trace_cache' = got.cache
            /\ IF got.traces = <<>>
               THEN /\ pc' = "Failed"
                    /\ inv' = Fail(i, "ValueError", <<"No traces found in labeling session">>)
               ELSE /\ pc' = StepAfter("FetchingExamples")
                    /\ inv' = i
    /\ UNCHANGED <<judges, evaluation_cache, runs, assess, last_eval, world, fp, last_call>>

\* a variant of the threshold check that lets a count one below the
\* threshold through
InsufficientOffByOne(labeled_examples) ==
    labeled_examples < MIN_EXAMPLES_FOR_OPTIMIZATION - 1

\* if labeling_progress.labeled_examples < MIN_EXAMPLES_FOR_OPTIMIZATION
Insufficient(labeled_examples) == labeled_examples < MIN_EXAMPLES_FOR_OPTIMIZATION

\* labeling_service.get_labeling_progress and the threshold check
CheckSufficiency ==
    /\ pc = "CheckingSufficiency"
    /\ \E labeled_examples \in LabeledCounts :
        LET i == [Started("CheckingSufficiency") EXCEPT !.labeled = labeled_examples]
        IN  IF Insufficient(labeled_examples)
            THEN /\ pc' = "Failed"
                 /\ inv' = Fail(i, "ValueError",
                                <<"Insufficient labeled examples", labeled_examples,
                                  MIN_EXAMPLES_FOR_OPTIMIZATION>>)
            ELSE /\ pc' = StepAfter("CheckingSufficiency")
                 /\ inv' = i
    /\ UNCHANGED <<judges, trace_cache, evaluation_cache, runs, assess,
                   last_eval, world, fp, last_call>>

\* trace_ids = [trace.info.trace_id for trace in traces]
TraceIdsOf(traces) == [k \in 1..Len(traces) |-> traces[k].id]

\* self.evaluate_judge(judge_id, TraceRequest(trace_ids)) inside run_alignment:
\* the result is not looked at
EvaluateStep(step, i, trace_ids) ==
    \E env \in EnvsNow :
        LET out == evaluate_judge(judges, trace_cache, evaluation_cache, runs, assess,
                                  i.judge_id, trace_ids, env)
            rec == EvalRecord(judges, i.judge_id, trace_ids, out)
        IN  /\ trace_cache' = out.trace_cache
            /\ evaluation_cache' = out.evaluation_cache
            /\ runs' = out.runs
            /\ assess' = out.assess
            /\ last_eval' = rec
            /\ inv' = [i EXCEPT !.trace_ids = trace_ids,
                                !.evaluations = Append(@, rec),
                                !.calls = Append(@, "evaluate_judge")]
            /\ pc' = StepAfter(step)

EvaluateBaseline ==
    /\ pc = "EvaluatingBaseline"
    /\ EvaluateStep("EvaluatingBaseline", Started("EvaluatingBaseline"),
                    TraceIdsOf(inv.traces))
    /\ UNCHANGED <<judges, world, fp, last_call>>

\* cache_service.invalidate_traces(trace_ids)
InvalidateStep(step) ==
    /\ pc = step
    /\ trace_cache' = invalidate_traces(trace_cache, inv.trace_ids)
    /\ inv' = [inv EXCEPT !.invalidated = Append(@, inv.trace_ids),
                          !.calls = Append(@, "invalidate_traces")]
    /\ pc' = StepAfter(step)
    /\ UNCHANGED <<judges, evaluation_cache, runs, assess, last_eval, world, fp, last_call>>

Invalidate1 == InvalidateStep("Invalidating1")

\* cache_service.get_traces(trace_ids): the traces are fetched again through
\* the trace cache
get_traces(tc, assessNow, trace_ids, unfetchable) ==
    FetchTraces(tc, assessNow, trace_ids, unfetchable, <<>>)

\* fresh_traces = cache_service.get_traces(trace_ids).  The CacheService
\* class of cache_service.py defines no get_traces, so the call raises
\* AttributeError there; where the cache service provides the method the
\* traces are fetched again.
Refetch ==
    /\ pc = "Refetching"
    /\ \E has_get_traces \in BOOLEAN, unfetchable \in SUBSET world.flaky :
        LET got == get_traces(trace_cache, assess, inv.trace_ids, unfetchable)
        IN  IF has_get_traces
            THEN /\ trace_cache' = got.cache
                 /\ inv' = [inv EXCEPT !.fresh_traces = got.traces]
                 /\ pc' = StepAfter("Refetching")
            ELSE /\ trace_cache' = trace_cache
                 /\ inv' = Fail(inv, "AttributeError", <<"get_traces">>)
                 /\ pc' = "Failed"
    /\ UNCHANGED <<judges, evaluation_cache, runs, assess, last_eval, world, fp, last_call>>

\* judge_instance.optimize(fresh_traces) and the check of its result
Optimize ==
    /\ pc = "Optimizing"
    /\ \E outcome \in OptimizerOutcomes :
        LET done == optimize(judges[inv.judge_id], inv.fresh_traces, outcome)
            i == [Started("Optimizing") EXCEPT
                     !.optimization_success = done.success,
                     !.optimizer_calls = @ + (IF done.called THEN 1 ELSE 0)]
        IN  /\ judges' = [judges EXCEPT ![inv.judge_id] = done.judge]
            /\ IF ~done.success
               THEN /\ pc' = "Failed"
                    /\ inv' = Fail(i, "RuntimeError", <<"Judge optimization failed">>)
               ELSE /\ pc' = StepAfter("Optimizing")
                    /\ inv' = i
    /\ UNCHANGED <<trace_cache, evaluation_cache, runs, assess, last_eval, world, fp, last_call>>

\* prompt_template.replace('Evaluation criteria: ', '').split('<request>')[0].strip()
OptimizedInstructions(prompt_template) == prompt_template.instructions

\* judge_service.create_new_version(judge_id, optimized_instructions)
CreateVersion ==
    /\ pc = "CreatingVersion"
    /\ \E registry_ok \in BOOLEAN :
        LET i == Started("CreatingVersion")
            js == create_new_version(
                      judges, inv.judge_id,
                      OptimizedInstructions(judges[inv.judge_id].prompt_template))
        IN  IF registry_ok
            THEN /\ judges' = js
                 /\ inv' = [i EXCEPT !.new_version = js[inv.judge_id].version,
                                     !.versions_created = @ + 1]
                 /\ pc' = StepAfter("CreatingVersion")
            ELSE /\ judges' = judges
                 /\ inv' = Fail(i, "Exception", <<"create_new_version failed">>)
                 /\ pc' = "Failed"
    /\ UNCHANGED <<trace_cache, evaluation_cache, runs, assess, last_eval, world, fp, last_call>>

EvaluateNew ==
    /\ pc = "EvaluatingNew"
    /\ EvaluateStep("EvaluatingNew", Started("EvaluatingNew"), inv.trace_ids)
    /\ UNCHANGED <<judges, world, fp, last_call>>

Invalidate2 == InvalidateStep("Invalidating2")

\* get_labeling_progress again, client.set_tag on the labeling run, and the
\* AlignmentResponse
TagRun ==
    /\ pc = "TaggingRun"
    /\ \E aligned_samples_count \in LabeledCounts, tag_ok \in BOOLEAN :
        LET i == Started("TaggingRun")
        IN  IF tag_ok /\ judges[inv.judge_id].labeling_run_id # ""
            THEN /\ pc' = StepAfter("TaggingRun")
                 /\ inv' = [i EXCEPT !.steps = Append(@, "Done"),
                                     !.tag = <<aligned_samples_count>>,
                                     !.response =
                                         [status |-> 200, error |-> "", detail |-> <<>>,
                                          success |-> TRUE, judge_id |-> inv.judge_id,
                                          new_version |-> inv.new_version]]
            ELSE /\ pc' = "Failed"
                 /\ inv' = Fail(i, "Exception", <<"set_tag failed">>)
    /\ UNCHANGED <<judges, trace_cache, evaluation_cache, runs, assess, last_eval, world, fp, last_call>>

\* POST /{judge_id}/evaluate
EvaluateRequest(judge_id, trace_ids) ==
    /\ pc = "Idle"
    /\ \E env \in EnvsNow :
        LET out == evaluate_judge(judges, trace_cache, evaluation_cache, runs, assess,
                                  judge_id, trace_ids, env)
        IN  /\ trace_cache' = out.trace_cache
            /\ evaluation_cache' = out.evaluation_cache
            /\ runs' = out.runs
            /\ assess' = out.assess
            /\ last_eval' = EvalRecord(judges, judge_id, trace_ids, out)
    /\ pc' = "Evaluated"
    /\ UNCHANGED <<judges, inv, world, fp, last_call>>

\* POST /{judge_id}/test: test_judge looks up the judge, the trace (through
\* the cache) and the scorer, and runs the scorer on the trace
TestRequest(judge_id, trace_id) ==
    /\ pc = "Idle"
    /\ \E unfetchable \in SUBSET world.flaky :
        LET got == get_trace(trace_cache, assess, trace_id, unfetchable)
        IN  trace_cache' = IF get_judge(judges, judge_id).found
                           THEN got.cache ELSE trace_cache
    /\ UNCHANGED <<judges, evaluation_cache, runs, assess, pc, inv, last_eval, world, fp, last_call>>

\* the response, or the answer of a direct call, goes back to the caller
Finish ==
    /\ pc \in {"Done", "Failed", "Evaluated", "Answered"}
    /\ pc' = "Idle"
    /\ inv' = IdleInv
    /\ last_eval' = NoEval
    /\ last_call' = NoCall
    /\ UNCHANGED <<judges, trace_cache, evaluation_cache, runs, assess, world, fp>>

Next ==
    \/ \E judge_id \in JudgeIds \cup {MissingJudge} : StartAlignment(judge_id)
    \/ FetchExamples
    \/ CheckSufficiency
    \/ EvaluateBaseline
    \/ Invalidate1
    \/ Refetch
    \/ Optimize
    \/ CreateVersion
    \/ EvaluateNew
    \/ Invalidate2
    \/ TagRun
    \/ \E request \in EvalRequests : EvaluateRequest(request[1], request[2])
    \/ \E request \in TestRequests : TestRequest(request[1], request[2])
    \/ Finish

Spec == Init /\ [][Next]_vars

-----------------------------------------------------------------------------
(* Evaluation requests on their own: direct evaluations of fixed judge     *)
(* versions, with evaluation-cache entries that outlive their time-to-live *)
(* and trace fetches that can fail.                                        *)

\* two trace-id lists for the same trace set, and one for another judge
DirectRequests ==
    {<<"j1", <<TraceId(1), OtherTrace>>>>, <<"j1", <<OtherTrace, TraceId(1)>>>>,
     <<"j2", <<OtherTrace>>>>, <<MissingJudge, <<OtherTrace>>>>}

InitEval ==
    /\ judges = [j \in JudgeIds |->
                    NewJudge(1, "user", IF j = "j1" THEN "exp" ELSE "",
                             IF j = "j1" THEN "lr1" ELSE "")]
    /\ trace_cache = <<>>
    /\ evaluation_cache = <<>>
    /\ runs = <<>>
    /\ assess = [t \in AllTraces |-> 0]
    /\ pc = "Idle"
    /\ inv = IdleInv
    /\ last_eval = NoEval
    /\ world = [flaky |-> Flaky, ttl |-> TRUE, search_fails |-> TRUE]
    /\ fp = <<>>
    /\ last_call = NoCall

\* TTLCache(maxsize=500, ttl=3600): the oldest evaluation-cache entry has
\* outlived its time-to-live
ExpireEvaluation ==
    /\ world.ttl
    /\ pc = "Idle"
    /\ evaluation_cache # <<>>
    /\ evaluation_cache' = Expire(evaluation_cache)
    /\ UNCHANGED <<judges, trace_cache, runs, assess, pc, inv, last_eval, world, fp, last_call>>

\* direct lookups: judge id, version, trace-id list and experiment id
LookupRequests ==
    {<<"j1", 1, <<TraceId(1), OtherTrace>>, "exp">>,
     <<"j1", 1, <<OtherTrace, TraceId(1)>>, "">>,
     <<"j2", 1, <<OtherTrace>>, "exp">>, <<"j2", 1, <<OtherTrace>>, "">>}

\* cache_service.get_evaluation_run_id(...), called on its own
LookupCall(judge_id, judge_version, trace_ids, experiment_id) ==
    /\ pc = "Idle"
    /\ \E search_ok \in BOOLEAN :
        LET look == get_evaluation_run_id(evaluation_cache, runs, judge_id, judge_version,
                                          trace_ids, experiment_id, search_ok)
        IN  /\ evaluation_cache' = look.cache
            /\ last_call' = [op |-> "get_evaluation_run_id",
                             key |-> CacheKey(judge_id, judge_version,
                                              compute_dataset_version(trace_ids)),
                             experiment_id |-> experiment_id,
                             search_ok |-> search_ok,
                             searched |-> look.searched,
                             run_id |-> look.run_id]
    /\ pc' = "Answered"
    /\ UNCHANGED <<judges, trace_cache, runs, assess, inv, last_eval, world, fp>>

\* trace ids and trace-id lists of direct cache-service calls
CallTraces == {TraceId(1), OtherTrace}
CallLists == {<<TraceId(1), OtherTrace>>}

\* cache_service.get_trace(trace_id), called on its own
GetTraceCall(trace_id) ==
    /\ pc = "Idle"
    /\ \E unfetchable \in SUBSET world.flaky :
        LET got == get_trace(trace_cache, assess, trace_id, unfetchable)
        IN  /\ trace_cache' = got.cache
            /\ last_call' = [op |-> "get_trace", trace_id |-> trace_id,
                             hit |-> CacheHas(trace_cache, trace_id),
                             fetch_failed |-> trace_id \in unfetchable,
                             trace |-> got.trace]
    /\ pc' = "Answered"
    /\ UNCHANGED <<judges, evaluation_cache, runs, assess, inv, last_eval, world, fp>>

\* cache_service.invalidate_trace(trace_id), called on its own
InvalidateTraceCall(trace_id) ==
    /\ pc = "Idle"
    /\ trace_cache' = invalidate_trace(trace_cache, trace_id)
    /\ last_call' = [op |-> "invalidate_trace", trace_ids |-> <<trace_id>>]
    /\ pc' = "Answered"
    /\ UNCHANGED <<judges, evaluation_cache, runs, assess, inv, last_eval, world, fp>>

\* cache_service.invalidate_traces(trace_ids), called on its own
InvalidateTracesCall(trace_ids) ==
    /\ pc = "Idle"
    /\ trace_cache' = invalidate_traces(trace_cache, trace_ids)
    /\ last_call' = [op |-> "invalidate_traces", trace_ids |-> trace_ids]
    /\ pc' = "Answered"
    /\ UNCHANGED <<judges, evaluation_cache, runs, assess, inv, last_eval, world, fp>>

\* GET /judges/{judge_id}: the 404 raised inside the try block for a missing
\* judge is an Exception, and the handler below it answers 500
GetJudgeRequest(judge_id) ==
    /\ pc = "Idle"
    /\ LET judge == get_judge(judges, judge_id)
           raised == IF ~judge.found THEN "HTTPException" ELSE ""
           status == CASE raised = "" -> 200
                       [] raised = "ValueError" -> 404
                       [] OTHER -> 500
       IN  last_call' = [op |-> "GET judge", judge_id |-> judge_id,
                         found |-> judge.found, status |-> status]
    /\ pc' = "Answered"
    /\ UNCHANGED <<judges, trace_cache, evaluation_cache, runs, assess, inv, last_eval, world, fp>>

NextEval ==
    \/ \E request \in DirectRequests : EvaluateRequest(request[1], request[2])
    \/ \E judge_id \in JudgeIds \cup {MissingJudge} : GetJudgeRequest(judge_id)
    \/ \E request \in TestRequests : TestRequest(request[1], request[2])
    \/ ExpireEvaluation
    \/ \E trace_id \in CallTraces : GetTraceCall(trace_id)
    \/ \E trace_id \in CallTraces : InvalidateTraceCall(trace_id)
    \/ \E trace_ids \in CallLists : InvalidateTracesCall(trace_ids)
    \/ \E request \in LookupRequests :
           LookupCall(request[1], request[2], request[3], request[4])
    \/ Finish

SpecEval == InitEval /\ [][NextEval]_vars

-----------------------------------------------------------------------------
(* Evaluation requests one after another while the remote search always    *)
(* answers: evaluation-cache entries expire, the executor may fail.        *)

\* requests of one judge for one trace set, given as different lists
SearchRequests ==
    {<<"j1", <<OtherTrace>>>>, <<"j1", <<OtherTrace, OtherTrace>>>>,
     <<"j1", <<TraceId(1), OtherTrace>>>>, <<"j1", <<OtherTrace, TraceId(1)>>>>}

InitSearch ==
    /\ judges = [j \in JudgeIds |-> NewJudge(1, "user", "exp", "")]
    /\ trace_cache = <<>>
    /\ evaluation_cache = <<>>
    /\ runs = <<>>
    /\ assess = [t \in AllTraces |-> 0]
    /\ pc = "Idle"
    /\ inv = IdleInv
    /\ last_eval = NoEval
    /\ world = [flaky |-> {}, ttl |-> TRUE, search_fails |-> FALSE]
    /\ fp = <<>>
    /\ last_call = NoCall

NextSearch ==
    \/ \E request \in SearchRequests : EvaluateRequest(request[1], request[2])
    \/ ExpireEvaluation
    \/ Finish

SpecSearch == InitSearch /\ [][NextSearch]_vars

-----------------------------------------------------------------------------
(* Alignment requests while backend fetches of some traces can fail.  Each *)
(* judge is one version below MaxVersion, so it is aligned at most once.   *)

AlignJudgeIds == JudgeIds \cup {"j3"}

InitAlign ==
    /\ judges = [j \in AlignJudgeIds |->
                    NewJudge(MaxVersion - 1, "user", "exp", "lr")]
    /\ trace_cache = <<>>
    /\ evaluation_cache = <<>>
    /\ runs = <<>>
    /\ assess = [t \in AllTraces |-> 0]
    /\ pc = "Idle"
    /\ inv = IdleInv
    /\ last_eval = NoEval
    /\ world = [flaky |-> Flaky, ttl |-> FALSE, search_fails |-> TRUE]
    /\ fp = <<>>
    /\ last_call = NoCall

NextAlign ==
    \/ \E judge_id \in AlignJudgeIds \cup {MissingJudge} : StartAlignment(judge_id)
    \/ FetchExamples
    \/ CheckSufficiency
    \/ EvaluateBaseline
    \/ Invalidate1
    \/ Refetch
    \/ Optimize
    \/ CreateVersion
    \/ EvaluateNew
    \/ Invalidate2
    \/ TagRun
    \/ GetTraceCall(TraceId(1))
    \/ Finish

SpecAlign == InitAlign /\ [][NextAlign]_vars

-----------------------------------------------------------------------------
(* CacheService.invalidate_judge_evaluations, for judges one of whose ids   *)
(* is the beginning of another's                                           *)

\* a variant of invalidate_judge_evaluations that compares with the judge id
\* alone
invalidate_judge_evaluations_by_id_prefix(ec, judge_id) ==
    SelectSeq(ec, LAMBDA e : ~startswith(e.key, chars(judge_id)))

\* invalidate_judge_evaluations: every key that starts with f'{judge_id}:'
\* is deleted
invalidate_judge_evaluations(ec, judge_id) ==
    SelectSeq(ec, LAMBDA e : ~startswith(e.key, chars(judge_id) \o <<58>>))

KeyJudgeIds == {"j1", "j10", "j2"}
KeyVersions == {1, 2}
KeyLists == {<<OtherTrace>>}

InitKeys ==
    /\ judges = [j \in KeyJudgeIds |-> NewJudge(1, "user", "exp", "")]
    /\ trace_cache = <<>>
    /\ evaluation_cache = <<>>
    /\ runs = <<>>
    /\ assess = [t \in AllTraces |-> 0]
    /\ pc = "Idle"
    /\ inv = IdleInv
    /\ last_eval = NoEval
    /\ world = [flaky |-> {}, ttl |-> FALSE, search_fails |-> TRUE]
    /\ fp = <<>>
    /\ last_call = NoCall

\* cache_service.cache_evaluation_run_id(...), called on its own
CacheEvaluationCall(judge_id, judge_version, trace_ids) ==
    /\ pc = "Idle"
    /\ evaluation_cache' = cache_evaluation_run_id(evaluation_cache, judge_id,
                                                   judge_version, trace_ids, 1)
    /\ last_call' = [op |-> "cache_evaluation_run_id", judge_id |-> judge_id]
    /\ pc' = "Answered"
    /\ UNCHANGED <<judges, trace_cache, runs, assess, inv, last_eval, world, fp>>

\* cache_service.invalidate_judge_evaluations(judge_id), called on its own
InvalidateJudgeCall(judge_id) ==
    /\ pc = "Idle"
    /\ evaluation_cache' = invalidate_judge_evaluations(evaluation_cache, judge_id)
    /\ last_call' = [op |-> "invalidate_judge_evaluations", judge_id |-> judge_id,
                     removed |-> Len(evaluation_cache) - Len(evaluation_cache')]
    /\ pc' = "Answered"
    /\ UNCHANGED <<judges, trace_cache, runs, assess, inv, last_eval, world, fp>>

NextKeys ==
    \/ \E judge_id \in KeyJudgeIds, judge_version \in KeyVersions, trace_ids \in KeyLists :
           CacheEvaluationCall(judge_id, judge_version, trace_ids)
    \/ \E judge_id \in KeyJudgeIds : InvalidateJudgeCall(judge_id)
    \/ GetTraceCall(OtherTrace)
    \/ Finish

SpecKeys == InitKeys /\ [][NextKeys]_vars

-----------------------------------------------------------------------------
(* The two caches with their clock and their capacity.  An entry is a      *)
(* (key, value, expires) record; the list is in order of use, least        *)
(* recently used first.  world.now is the clock in seconds; it advances    *)
(* between requests and between two statements of a handler.               *)

\* seconds between two readings of the clock, and the last reading: the
\* lifetime of an evaluation entry
Tick == TRACE_TTL \div 2
MaxTicks == EVALUATION_TTL \div Tick

\* the evaluation cache has half the room of the trace cache (maxsize=500)
MaxEvalEntries == IF MaxTraceEntries \div 2 > 0 THEN MaxTraceEntries \div 2 ELSE 1

\* TTLCache.expire(time): the entries whose lifetime has not elapsed
ttl_expire(c, time) == SelectSeq(c, LAMBDA e : time < e.expires)

\* a variant of ttl_contains that does not look at the clock
ttl_contains_ignoring_expiry(c, k, time) == \E i \in 1..Len(c) : c[i].key = k

\* TTLCache.__contains__: the key is there and its lifetime has not elapsed
ttl_contains(c, k, time) ==
    \E i \in 1..Len(c) : c[i].key = k /\ time < c[i].expires

\* TTLCache.__getitem__: the entry becomes the most recently used one; an
\* absent or expired key raises KeyError
ttl_getitem(c, k, time) ==
    IF \A i \in 1..Len(c) : c[i].key # k
    THEN [cache |-> c, error |-> "KeyError", value |-> 0]
    ELSE LET e == c[CHOOSE i \in 1..Len(c) : c[i].key = k]
             moved == Append(SelectSeq(c, LAMBDA x : x.key # k), e)
         IN  IF time < e.expires
             THEN [cache |-> moved, error |-> "", value |-> e.value]
             ELSE [cache |-> moved, error |-> "KeyError", value |-> 0]

\* a variant of ttl_setitem that makes no room
ttl_setitem_unbounded(c, k, v, time, ttl, maxsize) ==
    Append(SelectSeq(ttl_expire(c, time), LAMBDA x : x.key # k),
           [key |-> k, value |-> v, expires |-> time + ttl])

\* TTLCache.__setitem__: expired entries are removed; if the key is new and
\* the cache is full, the least recently used entry is removed; the entry
\* is stored as the most recently used one with a fresh lifetime
ttl_setitem(c, k, v, time, ttl, maxsize) ==
    LET live == ttl_expire(c, time)
        room == IF (\A i \in 1..Len(live) : live[i].key # k) /\ Len(live) + 1 > maxsize
                THEN Tail(live) ELSE live
    IN  Append(SelectSeq(room, LAMBDA x : x.key # k),
               [key |-> k, value |-> v, expires |-> time + ttl])

\* TTLCache.__delitem__: the entry is removed; an absent key raises
\* KeyError, and so does a key whose lifetime has elapsed
ttl_delitem(c, k, time) ==
    IF \A i \in 1..Len(c) : c[i].key # k
    THEN [cache |-> c, error |-> "KeyError"]
    ELSE LET e == c[CHOOSE i \in 1..Len(c) : c[i].key = k]
         IN  [cache |-> SelectSeq(c, LAMBDA x : x.key # k),
              error |-> IF time < e.expires THEN "" ELSE "KeyError"]

\* get_trace on the clocked cache: the membership test at time t0, the
\* access or the store at time t1; the backend's copy is backend_trace
get_trace_clocked(tc, trace_id, t0, t1, backend_trace, maxsize) ==
    IF ttl_contains(tc, trace_id, t0)
    THEN LET got == ttl_getitem(tc, trace_id, t1)
         IN  [cache |-> got.cache, error |-> got.error, hit |-> TRUE,
              trace |-> got.value]
    ELSE [cache |-> ttl_setitem(tc, trace_id, backend_trace, t1, TRACE_TTL, maxsize),
          error |-> "", hit |-> FALSE, trace |-> backend_trace]

\* invalidate_trace on the clocked cache: the membership test at time t0,
\* the deletion at time t1
invalidate_trace_clocked(tc, trace_id, t0, t1) ==
    IF ttl_contains(tc, trace_id, t0)
    THEN ttl_delitem(tc, trace_id, t1)
    ELSE [cache |-> tc, error |-> ""]

\* get_evaluation_run_id on the clocked cache; found is the run the remote
\* search comes back with, NoRun when there is no experiment id, no
\* matching run, or the search raised
get_evaluation_run_id_clocked(ec, cache_key, t0, t1, found, maxsize) ==
    IF ttl_contains(ec, cache_key, t0)
    THEN LET got == ttl_getitem(ec, cache_key, t1)
         IN  [cache |-> got.cache, error |-> got.error, hit |-> TRUE,
              run_id |-> got.value]
    ELSE IF found # NoRun
    THEN [cache |-> ttl_setitem(ec, cache_key, found, t1, EVALUATION_TTL, maxsize),
          error |-> "", hit |-> FALSE, run_id |-> found]
    ELSE [cache |-> ec, error |-> "", hit |-> FALSE, run_id |-> NoRun]

\* the keys of a judge as the iteration over evaluation_cache.keys() yields
\* them at time t0, each deleted at time t1
RECURSIVE delete_each(_, _, _)
delete_each(ec, keys, t1) ==
    IF keys = {} THEN [cache |-> ec, error |-> ""]
    ELSE LET k == CHOOSE x \in keys : TRUE
             done == ttl_delitem(ec, k, t1)
             rest == delete_each(done.cache, keys \ {k}, t1)
         IN  IF done.error # ""
             THEN [cache |-> done.cache, error |-> done.error]
             ELSE rest

\* invalidate_judge_evaluations on the clocked cache
invalidate_judge_evaluations_clocked(ec, judge_id, t0, t1) ==
    LET keys_to_remove ==
            {ec[i].key : i \in {n \in 1..Len(ec) :
                /\ t0 < ec[n].expires
                /\ startswith(ec[n].key, chars(judge_id) \o <<58>>)}}
    IN  delete_each(ec, keys_to_remove, t1)

\* one more trace id than the trace cache has room for, and one more
\* evaluation key than the evaluation cache has room for
ClockedTraces == {TraceId(i) : i \in 0..MaxTraceEntries}
ClockedKeys ==
    {CacheKey("j1", judge_version, compute_dataset_version(<<OtherTrace>>)) :
        judge_version \in 1..(MaxEvalEntries + 1)}

\* the clock readings a handler may see after time t0
Later(t0) == {t1 \in {t0, t0 + Tick} : t1 <= MaxTicks * Tick}

InitCache ==
    /\ judges = [j \in JudgeIds |-> NewJudge(1, "user", "", "")]
    /\ trace_cache = <<>>
    /\ evaluation_cache = <<>>
    /\ runs = <<>>
    /\ assess = [t \in AllTraces |-> 0]
    /\ pc = "Idle"
    /\ inv = IdleInv
    /\ last_eval = NoEval
    /\ world = [flaky |-> {}, ttl |-> TRUE, search_fails |-> TRUE, now |-> 0]
    /\ fp = <<>>
    /\ last_call = NoCall

\* time passes between two requests
ClockTick ==
    /\ pc = "Idle"
    /\ world.now + Tick <= MaxTicks * Tick
    /\ world' = [world EXCEPT !.now = @ + Tick]
    /\ UNCHANGED <<judges, trace_cache, evaluation_cache, runs, assess, pc, inv,
                   last_eval, fp, last_call>>

\* the answer of a call on the clocked caches, with the two caches as they
\* were when it started
ClockedAnswer(op, key, t0, t1, hit, value, error) ==
    [op |-> op, key |-> key, t0 |-> t0, t1 |-> t1, hit |-> hit, value |-> value,
     error |-> error, traces_before |-> trace_cache,
     evaluations_before |-> evaluation_cache]

\* cache_service.get_trace(trace_id); the backend's copy of a trace is
\* stamped with the time of the fetch
ClockedGetTrace(trace_id) ==
    /\ pc = "Idle"
    /\ \E t1 \in Later(world.now) :
        LET got == get_trace_clocked(trace_cache, trace_id, world.now, t1, t1,
                                     MaxTraceEntries)
        IN  /\ trace_cache' = got.cache
            /\ world' = [world EXCEPT !.now = t1]
            /\ last_call' = ClockedAnswer("get_trace", trace_id, world.now, t1,
                                          got.hit, got.trace, got.error)
    /\ pc' = "Answered"
    /\ UNCHANGED <<judges, evaluation_cache, runs, assess, inv, last_eval, fp>>

\* cache_service.invalidate_trace(trace_id)
ClockedInvalidateTrace(trace_id) ==
    /\ pc = "Idle"
    /\ \E t1 \in Later(world.now) :
        LET done == invalidate_trace_clocked(trace_cache, trace_id, world.now, t1)
        IN  /\ trace_cache' = done.cache
            /\ world' = [world EXCEPT !.now = t1]
            /\ last_call' = ClockedAnswer("invalidate_trace", trace_id, world.now, t1,
                                          FALSE, 0, done.error)
    /\ pc' = "Answered"
    /\ UNCHANGED <<judges, evaluation_cache, runs, assess, inv, last_eval, fp>>

\* cache_service.cache_evaluation_run_id(...): the run is numbered by the
\* time of the call
ClockedCacheEvaluation(cache_key) ==
    /\ pc = "Idle"
    /\ evaluation_cache' = ttl_setitem(evaluation_cache, cache_key, world.now + 1,
                                       world.now, EVALUATION_TTL, MaxEvalEntries)
    /\ last_call' = ClockedAnswer("cache_evaluation_run_id", cache_key, world.now,
                                  world.now, FALSE, world.now + 1, "")
    /\ pc' = "Answered"
    /\ UNCHANGED <<judges, trace_cache, runs, assess, inv, last_eval, world, fp>>

\* cache_service.get_evaluation_run_id(...); the run the backend holds is
\* numbered by the time of the search
ClockedLookup(cache_key) ==
    /\ pc = "Idle"
    /\ \E t1 \in Later(world.now), found \in {NoRun, world.now + 2} :
        LET got == get_evaluation_run_id_clocked(evaluation_cache, cache_key,
                                                 world.now, t1, found, MaxEvalEntries)
        IN  /\ evaluation_cache' = got.cache
            /\ world' = [world EXCEPT !.now = t1]
            /\ last_call' = ClockedAnswer("get_evaluation_run_id", cache_key,
                                          world.now, t1, got.hit, got.run_id, got.error)
    /\ pc' = "Answered"
    /\ UNCHANGED <<judges, trace_cache, runs, assess, inv, last_eval, fp>>

\* cache_service.invalidate_judge_evaluations(judge_id)
ClockedInvalidateJudge(judge_id) ==
    /\ pc = "Idle"
    /\ \E t1 \in Later(world.now) :
        LET done == invalidate_judge_evaluations_clocked(evaluation_cache, judge_id,
                                                         world.now, t1)
        IN  /\ evaluation_cache' = done.cache
            /\ world' = [world EXCEPT !.now = t1]
            /\ last_call' = ClockedAnswer("invalidate_judge_evaluations",
                                          chars(judge_id), world.now, t1, FALSE, 0,
                                          done.error)
    /\ pc' = "Answered"
    /\ UNCHANGED <<judges, trace_cache, runs, assess, inv, last_eval, fp>>

NextCache ==
    \/ ClockTick
    \/ ClockedInvalidateJudge("j1")
    \/ \E trace_id \in ClockedTraces : ClockedGetTrace(trace_id)
    \/ \E trace_id \in ClockedTraces : ClockedInvalidateTrace(trace_id)
    \/ \E cache_key \in ClockedKeys : ClockedCacheEvaluation(cache_key)
    \/ \E cache_key \in ClockedKeys : ClockedLookup(cache_key)
    \/ Finish

SpecCache == InitCache /\ [][NextCache]_vars

-----------------------------------------------------------------------------
(* compute_dataset_version on its own: two trace-id lists are fingerprinted *)

\* trace ids as callers may pass them: "1", "2" and "12"
FpIds == {<<1>>, <<2>>, <<1, 2>>}
RECURSIVE ListsUpTo(_)
ListsUpTo(n) ==
    IF n = 0 THEN {<<>>}
    ELSE ListsUpTo(n - 1) \cup
         {Append(l, x) : l \in {m \in ListsUpTo(n - 1) : Len(m) = n - 1}, x \in FpIds}
FpLists == ListsUpTo(MaxFpLen)

InitFP ==
    /\ judges = [j \in JudgeIds |-> NewJudge(1, "user", "exp", "")]
    /\ trace_cache = <<>>
    /\ evaluation_cache = <<>>
    /\ runs = <<>>
    /\ assess = [t \in AllTraces |-> 0]
    /\ pc = "Idle"
    /\ inv = IdleInv
    /\ last_eval = NoEval
    /\ world = [flaky |-> {}, ttl |-> FALSE, search_fails |-> TRUE]
    /\ fp \in {<<[trace_ids |-> a, called |-> FALSE, version |-> <<>>],
                 [trace_ids |-> b, called |-> FALSE, version |-> <<>>]>> :
                   a \in FpLists, b \in FpLists}
    /\ last_call = NoCall

\* cache_service.compute_dataset_version(trace_ids) for the k-th list
ComputeVersion(k) ==
    /\ ~fp[k].called
    /\ fp' = [fp EXCEPT ![k] = [called |-> TRUE, trace_ids |-> fp[k].trace_ids,
                                version |-> compute_dataset_version(fp[k].trace_ids)]]
    /\ UNCHANGED <<judges, trace_cache, evaluation_cache, runs, assess,
                   pc, inv, last_eval, world, last_call>>

NextFP == \E k \in 1..2 : ComputeVersion(k)

SpecFP == InitFP /\ [][NextFP]_vars

-----------------------------------------------------------------------------
(* CustomPromptJudge.optimize on its own: a judge with or without an       *)
(* optimizer is given a list of traces                                     *)

\* numbers of traces handed to optimize, on both sides of the threshold
OptimizeCounts == 0..(MIN_EXAMPLES_FOR_OPTIMIZATION + 1)

\* n traces
TraceList(n) == [i \in 1..n |-> [found |-> TRUE, id |-> TraceId(i), gen |-> 0]]

InitOptimize ==
    /\ judges \in {[j \in {"j1"} |->
                      [NewJudge(1, instructions, "exp", "lr") EXCEPT
                          !.optimizer = has_optimizer]] :
                    instructions \in {"user", "opt"}, has_optimizer \in BOOLEAN}
    /\ trace_cache = <<>>
    /\ evaluation_cache = <<>>
    /\ runs = <<>>
    /\ assess = [t \in AllTraces |-> 0]
    /\ pc = "Idle"
    /\ inv = IdleInv
    /\ last_eval = NoEval
    /\ world = [flaky |-> {}, ttl |-> FALSE, search_fails |-> TRUE]
    /\ fp \in {<<[traces |-> TraceList(n), outcome |-> outcome]>> :
                  n \in OptimizeCounts, outcome \in OptimizerOutcomes}
    /\ last_call = NoCall

\* judge.optimize(traces)
OptimizeCall ==
    /\ pc = "Idle"
    /\ LET done == optimize(judges["j1"], fp[1].traces, fp[1].outcome)
       IN  /\ judges' = [judges EXCEPT !["j1"] = done.judge]
           /\ last_call' = [op |-> "optimize", judge |-> judges["j1"],
                            traces |-> fp[1].traces, outcome |-> fp[1].outcome,
                            result |-> done.success, called |-> done.called,
                            error |-> done.error]
    /\ pc' = "Answered"
    /\ UNCHANGED <<trace_cache, evaluation_cache, runs, assess, inv, last_eval, world, fp>>

NextOptimize == OptimizeCall \/ Finish

SpecOptimize == InitOptimize /\ [][NextOptimize]_vars

-----------------------------------------------------------------------------
(* calculate_confusion_matrix and the derived rates of ConfusionMatrix and *)
(* AlignmentMetrics, applied to a pair of label sequences                  *)

\* feedback values as they come from human and judge assessments
Labels == {"pass", "PASS", "fail", "maybe"}

\* str(label).lower()
lower(label) ==
    CASE label = "PASS" -> "pass"
      [] OTHER -> label

\* label sequences of exactly n labels
RECURSIVE LabelsOfLen(_)
LabelsOfLen(n) ==
    IF n = 0 THEN {<<>>}
    ELSE {Append(l, x) : l \in LabelsOfLen(n - 1), x \in Labels}

\* pairs of sequences of equal length, and pairs whose second sequence is
\* one label short
LabelPairs ==
    UNION {LabelsOfLen(n) \X LabelsOfLen(n) : n \in 0..MaxLabels}
    \cup UNION {LabelsOfLen(n) \X LabelsOfLen(n - 1) : n \in 1..MaxLabels}

\* a float result, kept as an exact fraction
Fraction(num, den) == [error |-> "", num |-> num, den |-> den]
\* 0.0
Zero == Fraction(0, 1)
\* a / b on Python numbers
Divide(a, b) ==
    IF b = 0 THEN [error |-> "ZeroDivisionError", num |-> a, den |-> b]
    ELSE Fraction(a, b)

\* a variant of calculate_confusion_matrix with the two mixed cells swapped
RECURSIVE calculate_confusion_matrix_swapped(_, _, _)
calculate_confusion_matrix_swapped(human_labels, judge_results, cm) ==
    IF human_labels = <<>> THEN cm
    ELSE LET human_pass == lower(Head(human_labels)) = "pass"
             judge_pass == lower(Head(judge_results)) = "pass"
         IN  calculate_confusion_matrix_swapped(
                 Tail(human_labels), Tail(judge_results),
                 IF human_pass /\ judge_pass
                 THEN [cm EXCEPT !.true_positive = @ + 1]
                 ELSE IF human_pass /\ ~judge_pass
                 THEN [cm EXCEPT !.false_positive = @ + 1]
                 ELSE IF ~human_pass /\ judge_pass
                 THEN [cm EXCEPT !.false_negative = @ + 1]
                 ELSE [cm EXCEPT !.true_negative = @ + 1])

\* the four counters before the loop
EmptyMatrix ==
    [true_positive |-> 0, false_negative |-> 0, false_positive |-> 0,
     true_negative |-> 0]

\* the loop of calculate_confusion_matrix over zip(human_labels,
\* judge_results), cm holding the four counters
RECURSIVE calculate_confusion_matrix(_, _, _)
calculate_confusion_matrix(human_labels, judge_results, cm) ==
    IF human_labels = <<>> THEN cm
    ELSE LET human_pass == lower(Head(human_labels)) = "pass"
             judge_pass == lower(Head(judge_results)) = "pass"
         IN  calculate_confusion_matrix(
                 Tail(human_labels), Tail(judge_results),
                 IF human_pass /\ judge_pass
                 THEN [cm EXCEPT !.true_positive = @ + 1]
                 ELSE IF human_pass /\ ~judge_pass
                 THEN [cm EXCEPT !.false_negative = @ + 1]
                 ELSE IF ~human_pass /\ judge_pass
                 THEN [cm EXCEPT !.false_positive = @ + 1]
                 ELSE [cm EXCEPT !.true_negative = @ + 1])

\* a variant of accuracy without the check for an empty matrix
accuracy_unchecked(cm) ==
    Divide(cm.true_positive + cm.true_negative,
           cm.true_positive + cm.false_negative + cm.false_positive + cm.true_negative)

\* ConfusionMatrix.accuracy
accuracy(cm) ==
    LET total == cm.true_positive + cm.false_negative + cm.false_positive
                 + cm.true_negative
    IN  IF total = 0 THEN Zero
        ELSE Divide(cm.true_positive + cm.true_negative, total)

\* ConfusionMatrix.precision
precision(cm) ==
    LET denominator == cm.true_positive + cm.false_positive
    IN  IF denominator = 0 THEN Zero ELSE Divide(cm.true_positive, denominator)

\* ConfusionMatrix.recall
recall(cm) ==
    LET denominator == cm.true_positive + cm.false_negative
    IN  IF denominator = 0 THEN Zero ELSE Divide(cm.true_positive, denominator)

\* a variant of agreement_count that compares the labels as they are
RECURSIVE agreement_count_case_sensitive(_, _)
agreement_count_case_sensitive(human_labels, judge_labels) ==
    IF human_labels = <<>> \/ judge_labels = <<>> THEN 0
    ELSE (IF Head(human_labels) = Head(judge_labels) THEN 1 ELSE 0)
         + agreement_count_case_sensitive(Tail(human_labels), Tail(judge_labels))

\* sum(1 for h, p in zip(human_labels, judge_labels) if h.lower() == p.lower())
RECURSIVE agreement_count(_, _)
agreement_count(human_labels, judge_labels) ==
    IF human_labels = <<>> \/ judge_labels = <<>> THEN 0
    ELSE (IF lower(Head(human_labels)) = lower(Head(judge_labels)) THEN 1 ELSE 0)
         + agreement_count(Tail(human_labels), Tail(judge_labels))

\* AlignmentMetrics.previous_agreement_rate and new_agreement_rate
agreement_rate(count, total_samples) ==
    IF total_samples = 0 THEN Zero ELSE Divide(count, total_samples)

InitMetrics ==
    /\ judges = [j \in JudgeIds |-> NewJudge(1, "user", "exp", "")]
    /\ trace_cache = <<>>
    /\ evaluation_cache = <<>>
    /\ runs = <<>>
    /\ assess = [t \in AllTraces |-> 0]
    /\ pc = "Idle"
    /\ inv = IdleInv
    /\ last_eval = NoEval
    /\ world = [flaky |-> {}, ttl |-> FALSE, search_fails |-> TRUE]
    /\ fp \in {[human_labels |-> pair[1], judge_results |-> pair[2]] : pair \in LabelPairs}
    /\ last_call = NoCall

\* calculate_confusion_matrix(human_labels, judge_results), and the rates
\* of the matrix and of an AlignmentMetrics built over the same labels
ComputeMetrics ==
    /\ pc = "Idle"
    /\ last_call' =
          IF Len(fp.human_labels) # Len(fp.judge_results)
          THEN [op |-> "calculate_confusion_matrix", error |-> "ValueError"]
          ELSE LET cm == calculate_confusion_matrix(fp.human_labels, fp.judge_results,
                                                    EmptyMatrix)
                   count == agreement_count(fp.human_labels, fp.judge_results)
               IN  [op |-> "calculate_confusion_matrix", error |-> "",
                    matrix |-> cm,
                    accuracy |-> accuracy(cm),
                    precision |-> precision(cm),
                    recall |-> recall(cm),
                    total_samples |-> Len(fp.human_labels),
                    agreement_count |-> count,
                    agreement_rate |-> agreement_rate(count, Len(fp.human_labels))]
    /\ pc' = "Answered"
    /\ UNCHANGED <<judges, trace_cache, evaluation_cache, runs, assess, inv,
                   last_eval, world, fp>>

NextMetrics == ComputeMetrics

SpecMetrics == InitMetrics /\ [][NextMetrics]_vars

-----------------------------------------------------------------------------
(* AlignmentService.get_alignment_comparison, for judges that have been    *)
(* aligned once ("j1", "j2") or never ("j3").                              *)

\* a variant of comparison_allowed that accepts every existing judge
comparison_allowed_any_version(judge) == judge.found

\* the negation of "if not judge or judge.version < 2"
comparison_allowed(judge) == judge.found /\ ~(judge.version < 2)

\* what the feedback extraction finds on a trace: nothing, a feedback with
\* a label, or a feedback that carries an error
NoFeedback == [present |-> FALSE, error |-> FALSE, value |-> ""]
Given(value) == [present |-> TRUE, error |-> FALSE, value |-> value]
Errored == [present |-> TRUE, error |-> TRUE, value |-> ""]
Profile(human, previous, new) == [human |-> human, previous |-> previous, new |-> new]

\* the feedbacks on the traces: all three everywhere; no human feedback
\* anywhere; all three only on the trace whose fetch can fail; a mix of
\* complete, erroneous and incomplete traces; errors everywhere
FeedbackScenarios ==
    {[t \in AllTraces |-> Profile(Given("pass"), Given("PASS"), Given("fail"))],
     [t \in AllTraces |-> Profile(NoFeedback, Given("pass"), Given("pass"))],
     [t \in AllTraces |->
         IF t = TraceId(1) THEN Profile(Given("fail"), Given("fail"), Given("pass"))
         ELSE Profile(Given("pass"), Given("pass"), NoFeedback)],
     [t \in AllTraces |->
         CASE t = TraceId(2) -> Profile(Given("pass"), Given("fail"), Given("pass"))
           [] t = TraceId(3) -> Profile(Given("pass"), Errored, Given("pass"))
           [] t = TraceId(4) -> Profile(Given("fail"), Given("maybe"), Given("fail"))
           [] t = TraceId(5) -> Profile(Errored, Given("pass"), Given("pass"))
           [] OTHER -> Profile(Given("pass"), NoFeedback, Given("pass"))],
     [t \in AllTraces |-> Profile(Given("pass"), Given("pass"), Errored)]}

\* the first loop: the resolved traces on which a human feedback is found
examples_with_feedback(traces, feedback) ==
    SelectSeq(traces, LAMBDA trace : feedback[trace.id].human.present)

\* a variant of comparison_rows that does not look at the error flags
comparison_rows_ignoring_errors(traces, feedback) ==
    LET kept == SelectSeq(traces, LAMBDA trace :
                    /\ feedback[trace.id].previous.present
                    /\ feedback[trace.id].new.present)
    IN  [k \in 1..Len(kept) |->
            [trace_id |-> kept[k].id,
             human_feedback |-> feedback[kept[k].id].human,
             previous_judge_feedback |-> feedback[kept[k].id].previous,
             new_judge_feedback |-> feedback[kept[k].id].new]]

\* a variant of comparison_rows that gives up as soon as one trace is
\* skipped
comparison_rows_all_or_nothing(traces, feedback) ==
    IF \A k \in 1..Len(traces) :
           /\ feedback[traces[k].id].previous.present
           /\ feedback[traces[k].id].new.present
           /\ ~feedback[traces[k].id].human.error
           /\ ~feedback[traces[k].id].previous.error
           /\ ~feedback[traces[k].id].new.error
    THEN [k \in 1..Len(traces) |->
            [trace_id |-> traces[k].id,
             human_feedback |-> feedback[traces[k].id].human,
             previous_judge_feedback |-> feedback[traces[k].id].previous,
             new_judge_feedback |-> feedback[traces[k].id].new]]
    ELSE <<>>

\* the second loop: a trace is skipped when the previous or the current
\* judge feedback is missing or when one of the three feedbacks has an
\* error; every other trace gives one AlignmentComparison
comparison_rows(traces, feedback) ==
    LET kept == SelectSeq(traces, LAMBDA trace :
                    /\ feedback[trace.id].previous.present
                    /\ feedback[trace.id].new.present
                    /\ ~(\/ feedback[trace.id].human.error
                         \/ feedback[trace.id].previous.error
                         \/ feedback[trace.id].new.error))
    IN  [k \in 1..Len(kept) |->
            [trace_id |-> kept[k].id,
             human_feedback |-> feedback[kept[k].id].human,
             previous_judge_feedback |-> feedback[kept[k].id].previous,
             new_judge_feedback |-> feedback[kept[k].id].new]]

\* no metrics: the call raised
NoMetrics == [total_samples |-> 0]

\* AlignmentMetrics over the rows
alignment_metrics(rows) ==
    LET human_labels == [k \in 1..Len(rows) |-> rows[k].human_feedback.value]
        prev_judge_labels == [k \in 1..Len(rows) |-> rows[k].previous_judge_feedback.value]
        curr_judge_labels == [k \in 1..Len(rows) |-> rows[k].new_judge_feedback.value]
    IN  [total_samples |-> Len(human_labels),
         previous_agreement_count |-> agreement_count(human_labels, prev_judge_labels),
         new_agreement_count |-> agreement_count(human_labels, curr_judge_labels),
         confusion_matrix_previous |->
             calculate_confusion_matrix(human_labels, prev_judge_labels, EmptyMatrix),
         confusion_matrix_new |->
             calculate_confusion_matrix(human_labels, curr_judge_labels, EmptyMatrix)]

\* a variant of runs_missing that needs both runs to be absent
runs_missing_both(prev_run_id, curr_run_id) ==
    prev_run_id = NoRun /\ curr_run_id = NoRun

\* if not prev_run_id or not curr_run_id
runs_missing(prev_run_id, curr_run_id) ==
    prev_run_id = NoRun \/ curr_run_id = NoRun

\* the answer of get_alignment_comparison: status, error, the collaborator
\* calls it made, the run ids it looked up, and the rows and metrics
ComparisonAnswer(judge_id, status, detail, reads, prev_run_id, curr_run_id, rows) ==
    [op |-> "get_alignment_comparison", judge_id |-> judge_id,
     status |-> status, error |-> IF status = 200 THEN "" ELSE "ValueError",
     detail |-> detail, reads |-> reads,
     prev_run_id |-> prev_run_id, curr_run_id |-> curr_run_id,
     comparisons |-> IF status = 200 THEN rows ELSE <<>>,
     metrics |-> IF status = 200 THEN alignment_metrics(rows) ELSE NoMetrics]

\* GET /{judge_id}/alignment-comparison
ComparisonRequest(judge_id) ==
    /\ pc = "Idle"
    /\ \E unfetchable \in SUBSET world.flaky, prev_search_ok \in BOOLEAN,
          curr_search_ok \in BOOLEAN :
        LET judge == get_judge(judges, judge_id)
            trace_ids == Examples(judge_id)
            got == FetchTraces(trace_cache, assess, trace_ids, unfetchable, <<>>)
            with_feedback == examples_with_feedback(got.traces, world.feedback)
            prev == get_evaluation_run_id(evaluation_cache, runs, judge_id,
                                          judge.version - 1, trace_ids,
                                          judge.experiment_id, prev_search_ok)
            curr == get_evaluation_run_id(prev.cache, runs, judge_id,
                                          judge.version, trace_ids,
                                          judge.experiment_id, curr_search_ok)
            again == FetchTraces(got.cache, assess, TraceIdsOf(with_feedback),
                                 unfetchable, <<>>)
            rows == comparison_rows(again.traces, world.feedback)
            lookups == <<"get_examples", "get_trace", "get_evaluation_run_id",
                         "get_evaluation_run_id">>
            all_reads == IF with_feedback = <<>> THEN lookups
                         ELSE Append(lookups, "get_trace")
        IN  IF ~comparison_allowed(judge)
            THEN /\ last_call' = ComparisonAnswer(judge_id, 404, "version", <<>>,
                                                  NoRun, NoRun, <<>>)
                 /\ UNCHANGED <<trace_cache, evaluation_cache>>
            ELSE IF trace_ids = <<>>
            THEN /\ last_call' = ComparisonAnswer(judge_id, 404, "no traces",
                                                  <<"get_examples">>, NoRun, NoRun, <<>>)
                 /\ UNCHANGED <<trace_cache, evaluation_cache>>
            ELSE IF runs_missing(prev.run_id, curr.run_id)
            THEN /\ trace_cache' = got.cache
                 /\ evaluation_cache' = curr.cache
                 /\ last_call' = ComparisonAnswer(judge_id, 404, "no runs", lookups,
                                                  prev.run_id, curr.run_id, <<>>)
            ELSE /\ trace_cache' = again.cache
                 /\ evaluation_cache' = curr.cache
                 /\ last_call' =
                        ComparisonAnswer(judge_id, IF rows = <<>> THEN 404 ELSE 200,
                                         IF rows = <<>> THEN "no rows" ELSE "",
                                         all_reads, prev.run_id, curr.run_id, rows)
    /\ pc' = "Answered"
    /\ UNCHANGED <<judges, runs, assess, inv, last_eval, world, fp>>

\* the run the baseline evaluation of the alignment of "j1" left behind
BaselineRun ==
    [experiment_id |-> "exp", judge_id |-> "j1", judge_version |-> 1,
     dataset_version |-> compute_dataset_version(Examples("j1")),
     finished |-> TRUE, evaluated |-> NumExamples]

InitCompare ==
    /\ judges = [j \in AlignJudgeIds |->
                    NewJudge(IF j = "j3" THEN 1 ELSE 2, "user", "exp", "lr")]
    /\ trace_cache = <<>>
    /\ evaluation_cache = <<>>
    /\ runs \in {<<>>, <<BaselineRun>>}
    /\ assess = [t \in AllTraces |-> 0]
    /\ pc = "Idle"
    /\ inv = IdleInv
    /\ last_eval = NoEval
    /\ world \in {[flaky |-> Flaky, ttl |-> TRUE, search_fails |-> TRUE,
                   feedback |-> feedback] : feedback \in FeedbackScenarios}
    /\ fp = <<>>
    /\ last_call = NoCall

NextCompare ==
    \/ \E judge_id \in AlignJudgeIds \cup {MissingJudge} : ComparisonRequest(judge_id)
    \/ EvaluateRequest("j1", Examples("j1"))
    \/ GetTraceCall(TraceId(1))
    \/ ExpireEvaluation
    \/ Finish

SpecCompare == InitCompare /\ [][NextCompare]_vars

-----------------------------------------------------------------------------
(* An alignment of "j4" followed by get_alignment_comparison; one example *)
(* of its labeling session does not resolve to a trace, and the backend    *)
(* fetch of another can fail.                                              *)

AlignedJudge == "j4"

InitAligned ==
    /\ judges = [j \in {AlignedJudge} |->
                    NewJudge(MaxVersion - 1, "user", "exp", "lr")]
    /\ trace_cache = <<>>
    /\ evaluation_cache = <<>>
    /\ runs = <<>>
    /\ assess = [t \in AllTraces |-> 0]
    /\ pc = "Idle"
    /\ inv = IdleInv
    /\ last_eval = NoEval
    /\ world = [flaky |-> Flaky, ttl |-> FALSE, search_fails |-> TRUE,
                feedback |-> [t \in AllTraces |->
                                 Profile(Given("pass"), Given("PASS"), Given("fail"))]]
    /\ fp = <<>>
    /\ last_call = NoCall

NextAligned ==
    \/ StartAlignment(AlignedJudge)
    \/ FetchExamples
    \/ CheckSufficiency
    \/ EvaluateBaseline
    \/ Invalidate1
    \/ Refetch
    \/ Optimize
    \/ CreateVersion
    \/ EvaluateNew
    \/ Invalidate2
    \/ TagRun
    \/ ComparisonRequest(AlignedJudge)
    \/ Finish

SpecAligned == InitAligned /\ [][NextAligned]_vars

-----------------------------------------------------------------------------
(* Properties of the alignment workflow (Spec)                             *)

IsPrefix(s, t) == Len(s) <= Len(t) /\ SubSeq(t, 1, Len(s)) = s
LastStep == IF inv.steps = <<>> THEN "" ELSE inv.steps[Len(inv.steps)]
\* the invocation in progress has ended because optimize returned False
OptimizerFailed == pc = "Failed" /\ LastStep = "Optimizing"
\* the evaluation-cache key of a recorded evaluate_judge call
KeyOf(e) == CacheKey(e.judge_id, e.judge_version, compute_dataset_version(e.trace_ids))

\* C1: when optimize returns False during run_alignment, create_new_version
\* has not been called, the judge has the version number and the prompt it
\* had when the invocation started, and the caller gets the RuntimeError
\* (status 500), not a success response.
C1_OptimizerFailureLeavesJudge ==
    OptimizerFailed =>
        /\ inv.versions_created = 0
        /\ "CreatingVersion" \notin Range(inv.steps)
        /\ judges[inv.judge_id].version = inv.current_version
        /\ judges[inv.judge_id].prompt_template = inv.prompt0
        /\ inv.response = Raised("RuntimeError", <<"Judge optimization failed">>)
        /\ inv.response.status = 500
        /\ ~inv.response.success

\* the optimizer collaborator was called and raised
C1_Witness ==
    /\ OptimizerFailed
    /\ inv.optimizer_calls = 1
    /\ ~inv.optimization_success

\* C2: when the labeling service reports fewer labeled examples than
\* MIN_EXAMPLES_FOR_OPTIMIZATION, the invocation ends with the ValueError
\* that carries the count and the threshold, and the optimizer has not been
\* called.
C2_InsufficientExamplesStop ==
    ("CheckingSufficiency" \in Range(inv.steps)
        /\ inv.labeled < MIN_EXAMPLES_FOR_OPTIMIZATION) =>
        /\ pc = "Failed"
        /\ inv.response.error = "ValueError"
        /\ inv.response.detail = <<"Insufficient labeled examples", inv.labeled,
                                   MIN_EXAMPLES_FOR_OPTIMIZATION>>
        /\ ~inv.response.success
        /\ inv.optimizer_calls = 0
        /\ "Optimizing" \notin Range(inv.steps)

\* the count is one below the threshold
C2_Witness ==
    /\ pc = "Failed"
    /\ LastStep = "CheckingSufficiency"
    /\ inv.labeled = MIN_EXAMPLES_FOR_OPTIMIZATION - 1

\* the order of the workflow steps with the baseline evaluation ahead of the
\* sufficiency check
BaselineFirstOrder ==
    <<"FetchingExamples", "EvaluatingBaseline", "CheckingSufficiency", "Optimizing",
      "CreatingVersion", "EvaluatingNew", "TaggingRun", "Done">>
\* the order of the workflow steps with the sufficiency check ahead of the
\* baseline evaluation
SufficiencyFirstOrder ==
    <<"FetchingExamples", "CheckingSufficiency", "EvaluatingBaseline", "Optimizing",
      "CreatingVersion", "EvaluatingNew", "TaggingRun", "Done">>

\* C3 as stated: the steps an invocation has started are an initial part of
\* FetchingExamples, EvaluatingBaseline, CheckingSufficiency, Optimizing,
\* CreatingVersion, EvaluatingNew, TaggingRun, Done, and all of it when the
\* invocation succeeds.
C3_BaselineBeforeSufficiency ==
    /\ IsPrefix(inv.steps, BaselineFirstOrder)
    /\ pc = "Done" => inv.steps = BaselineFirstOrder

\* C3: the steps an invocation has started are an initial part of
\* FetchingExamples, CheckingSufficiency, EvaluatingBaseline, Optimizing,
\* CreatingVersion, EvaluatingNew, TaggingRun, Done, and all of it when the
\* invocation succeeds: the sufficiency check comes before the baseline
\* evaluation.
C3_SufficiencyBeforeBaseline ==
    /\ IsPrefix(inv.steps, SufficiencyFirstOrder)
    /\ pc = "Done" => inv.steps = SufficiencyFirstOrder

\* a successful invocation
C3_Witness ==
    /\ pc = "Done"
    /\ inv.response.success
    /\ Len(inv.evaluations) = 2

\* what a step that invalidates leaves in the trace cache
KeptEntries(tc, trace_ids) == SelectSeq(tc, LAMBDA e : e.key \notin Range(trace_ids))
InvalidationStep == Len(inv'.invalidated) > Len(inv.invalidated)

\* C5: a successful invocation has invalidated twice, each time directly
\* after an evaluate_judge call and for the trace ids of the alignment; a
\* step that invalidates removes the entries of those trace ids from the
\* trace cache, keeps every other entry, and leaves the evaluation cache as
\* it was.
C5_TwoInvalidations ==
    /\ [](pc = "Done" =>
            /\ inv.invalidated = <<inv.trace_ids, inv.trace_ids>>
            /\ inv.trace_ids = TraceIdsOf(inv.traces)
            /\ inv.calls = <<"evaluate_judge", "invalidate_traces",
                             "evaluate_judge", "invalidate_traces">>)
    /\ [][InvalidationStep =>
            /\ trace_cache' = KeptEntries(trace_cache, inv.trace_ids)
            /\ CacheKeys(trace_cache') \cap Range(inv.trace_ids) = {}
            /\ evaluation_cache' = evaluation_cache]_vars

\* a successful invocation that ends with another judge's trace and the
\* evaluation runs still cached
C5_Witness ==
    /\ pc = "Done"
    /\ Len(inv.invalidated) = 2
    /\ CacheHas(trace_cache, OtherTrace)
    /\ Len(evaluation_cache) = 2

\* C6 as stated: run_alignment answers with success only if both of its
\* evaluations produced a run id that is cached under the key of judge id,
\* version and dataset version.
C6_SuccessOnlyAfterBothEvaluations ==
    (pc = "Done" /\ inv.response.success) =>
        /\ Len(inv.evaluations) = 2
        /\ \A k \in 1..Len(inv.evaluations) :
            /\ inv.evaluations[k].result.mlflow_run_id # NoRun
            /\ CacheHas(evaluation_cache, KeyOf(inv.evaluations[k]))
            /\ CacheGet(evaluation_cache, KeyOf(inv.evaluations[k]))
                   = inv.evaluations[k].result.mlflow_run_id

\* C7 as stated: a successful invocation has created exactly one version,
\* numbered one above the version it started from, and after a failed
\* invocation the judge has the version it started from.
C7_VersionCounter ==
    /\ pc = "Done" =>
        /\ inv.versions_created = 1
        /\ judges[inv.judge_id].version = inv.current_version + 1
    /\ (pc = "Failed" /\ inv.judge_id \in DOMAIN judges) =>
        judges[inv.judge_id].version = inv.current_version

\* C8 as stated: as long as the registry holds the version the invocation
\* started from, that version has the prompt it had when the invocation
\* started.
C8_ExistingVersionKeepsPrompt ==
    (pc # "Idle" /\ inv.judge_id \in DOMAIN judges
        /\ judges[inv.judge_id].version = inv.current_version) =>
        judges[inv.judge_id].prompt_template = inv.prompt0

\* an alignment of "j1" is between two of its steps
AlignmentInProgress ==
    /\ pc \notin {"Idle", "Done", "Failed", "Evaluated", "Answered"}
    /\ inv.judge_id = "j1"

\* C29 as stated: while an alignment is in progress, a request for another
\* judge can be started and handled.
C29_AlignmentDoesNotBlockRequests ==
    AlignmentInProgress => ENABLED TestRequest("j2", OtherTrace)

\* C40: when run_alignment ends in failure, the invocation has created no
\* new judge version: the judge is at the version the invocation read.
C40_FailureLeavesNoNewVersion ==
    (pc = "Failed" /\ inv.judge_id \in DOMAIN judges) =>
        /\ inv.versions_created = 0
        /\ judges[inv.judge_id].version = inv.current_version

\* C36: alignments of one judge do not exclude each other: while an
\* alignment of "j1" is in progress, a second one for "j1" can start, read
\* the same current version and go on to create its own new version.
C36_SecondAlignmentCanStart ==
    (AlignmentInProgress /\ judges["j1"].version < MaxVersion) =>
        ENABLED StartAlignment("j1")

\* an evaluate request for "j1" has run evaluate_judge and its response has
\* not gone out yet
EvaluationInProgress == pc = "Evaluated" /\ last_eval.judge_id = "j1"

\* C37: evaluate requests for the same judge, version and trace set can
\* overlap: while one is being handled, a second one can start, so that the
\* two can both miss the cache and the search and each create a run.
C37_SecondEvaluationCanStart ==
    EvaluationInProgress => ENABLED EvaluateRequest("j1", last_eval.trace_ids)

\* an evaluation that invoked the executor has been followed through: a
\* direct evaluate request has returned, or run_alignment has gone past the
\* invalidation that follows its evaluation
EvaluationStepOver ==
    /\ last_eval.executed
    /\ \/ pc = "Evaluated"
       \/ pc \in {"Refetching", "TaggingRun"}

\* C32: once an evaluation step that invoked the executor is over, inside
\* run_alignment or as a direct evaluate request, the trace cache holds no
\* copy of an evaluated trace that is older than the feedback the backend
\* now has for it.
C32_NoStaleTraceAfterEvaluation ==
    EvaluationStepOver =>
        \A k \in 1..Len(last_eval.trace_ids) :
            CacheHas(trace_cache, last_eval.trace_ids[k]) =>
                CacheGet(trace_cache, last_eval.trace_ids[k]) = assess[last_eval.trace_ids[k]]

\* C33: the total_traces of an evaluation result is the number of traces
\* that the returned run evaluated, whether the result comes from a fresh
\* evaluation or from the cache-hit path.
C33_TotalTracesIsWhatTheRunEvaluated ==
    (pc = "Evaluated" /\ last_eval.result.mlflow_run_id # NoRun) =>
        last_eval.result.total_traces = runs[last_eval.result.mlflow_run_id].evaluated

\* the run id a lookup has just returned: to evaluate_judge, or to a direct
\* caller of get_evaluation_run_id
ReturnedByLookup ==
    IF pc = "Evaluated" THEN last_eval.found
    ELSE IF pc = "Answered" /\ last_call.op = "get_evaluation_run_id"
    THEN last_call.run_id
    ELSE NoRun

\* C38: a run id that get_evaluation_run_id returns, from the cache or from
\* the remote search, is that of a run whose executor invocation completed;
\* a run whose executor failed is never returned as the evaluation of its
\* judge, version and dataset.
C38_ReturnedRunsHaveFinished ==
    ReturnedByLookup # NoRun => runs[ReturnedByLookup].finished

-----------------------------------------------------------------------------
(* Properties of evaluate_judge (SpecEval)                                 *)

SameKey(r, q) ==
    /\ r.judge_id = q.judge_id
    /\ r.judge_version = q.judge_version
    /\ r.dataset_version = q.dataset_version

\* C4 as stated: the executor is invoked at most once for a judge, version
\* and trace set, that is, the backend holds at most one evaluation run per
\* judge id, version and dataset version.
C4_ExecutorAtMostOncePerKey ==
    \A i, j \in 1..Len(runs) : SameKey(runs[i], runs[j]) => i = j

EvaluateCall == pc = "Idle" /\ pc' = "Evaluated"

\* C4: an evaluate_judge call that finds a run id for its key, in the
\* evaluation cache or by remote search, returns that run id without
\* invoking the executor and without creating a run; a call whose executor
\* finishes leaves its run id in the evaluation cache under the key.
C4_FoundRunIsReturned ==
    [][EvaluateCall =>
        /\ (CacheHas(evaluation_cache, KeyOf(last_eval')) \/ last_eval'.found # NoRun) =>
            /\ runs' = runs
            /\ assess' = assess
            /\ ~last_eval'.executed
            /\ ~last_eval'.created
            /\ last_eval'.result.mlflow_run_id # NoRun
            /\ last_eval'.result.mlflow_run_id =
                   IF CacheHas(evaluation_cache, KeyOf(last_eval'))
                   THEN CacheGet(evaluation_cache, KeyOf(last_eval'))
                   ELSE last_eval'.found
        /\ (last_eval'.executed /\ last_eval'.result.mlflow_run_id # NoRun) =>
            /\ CacheHas(evaluation_cache', KeyOf(last_eval'))
            /\ CacheGet(evaluation_cache', KeyOf(last_eval'))
                   = last_eval'.result.mlflow_run_id]_vars

\* the second call for a key got the run of the first one
C4_Witness ==
    /\ pc = "Evaluated"
    /\ last_eval.found # NoRun
    /\ last_eval.result.mlflow_run_id = last_eval.found
    /\ Len(runs) = 1
    /\ SameKey(runs[1], [judge_id |-> last_eval.judge_id,
                         judge_version |-> last_eval.judge_version,
                         dataset_version |-> compute_dataset_version(last_eval.trace_ids)])

InvalidationCall ==
    /\ pc = "Idle"
    /\ pc' = "Answered"
    /\ last_call'.op \in {"invalidate_trace", "invalidate_traces"}
GetTraceMiss ==
    /\ pc = "Idle"
    /\ pc' = "Answered"
    /\ last_call'.op = "get_trace"
    /\ ~CacheHas(trace_cache, last_call'.trace_id)

\* C11: a call of invalidate_trace or invalidate_traces leaves no entry for
\* the given ids in the trace cache, keeps the other entries, and changes
\* nothing when none of the ids is cached; a get_trace for an id that is not
\* cached is a miss, and when the backend answers it returns the backend's
\* trace as it is now and stores that copy.
C11_InvalidateThenRefetch ==
    /\ [][InvalidationCall =>
            /\ CacheKeys(trace_cache') \cap Range(last_call'.trace_ids) = {}
            /\ trace_cache' = KeptEntries(trace_cache, last_call'.trace_ids)
            /\ (CacheKeys(trace_cache) \cap Range(last_call'.trace_ids) = {}) =>
                   trace_cache' = trace_cache
            /\ UNCHANGED <<judges, evaluation_cache, runs, assess>>]_vars
    /\ [][GetTraceMiss =>
            /\ ~last_call'.hit
            /\ IF last_call'.fetch_failed
               THEN ~last_call'.trace.found
               ELSE /\ last_call'.trace = BackendTrace(assess, last_call'.trace_id)
                    /\ CacheHas(trace_cache', last_call'.trace_id)
                    /\ CacheGet(trace_cache', last_call'.trace_id)
                           = assess[last_call'.trace_id]]_vars

\* a trace that was evaluated and then invalidated is fetched again, with the
\* feedback the evaluation attached
C11_Witness ==
    /\ last_call.op = "get_trace"
    /\ ~last_call.hit
    /\ last_call.trace.found
    /\ last_call.trace.gen = 1
    /\ CacheGet(trace_cache, last_call.trace_id) = 1

LookupStep ==
    /\ pc = "Idle"
    /\ pc' = "Answered"
    /\ last_call'.op = "get_evaluation_run_id"
\* the runs of an experiment that carry the three tags of a key
RunsOfKey(key, experiment_id) ==
    {i \in 1..Len(runs) :
        /\ runs[i].experiment_id = experiment_id
        /\ CacheKey(runs[i].judge_id, runs[i].judge_version,
                    runs[i].dataset_version) = key}

\* C12: a lookup whose key is cached returns the cached run id without a
\* remote search; a lookup whose key is not cached searches exactly when an
\* experiment id is given; a search that finds a run with the three tags
\* writes its id into the evaluation cache under the key and returns it;
\* without an experiment id the lookup returns a miss and leaves the cache
\* as it was.
C12_SearchOnMissWritesBack ==
    [][LookupStep =>
        LET key == last_call'.key
        IN  IF CacheHas(evaluation_cache, key)
            THEN /\ ~last_call'.searched
                 /\ last_call'.run_id = CacheGet(evaluation_cache, key)
                 /\ evaluation_cache' = evaluation_cache
            ELSE /\ last_call'.searched <=> (last_call'.experiment_id # "")
                 /\ ~last_call'.searched =>
                        /\ last_call'.run_id = NoRun
                        /\ evaluation_cache' = evaluation_cache
                 /\ (last_call'.searched /\ last_call'.search_ok
                        /\ RunsOfKey(key, last_call'.experiment_id) # {}) =>
                        last_call'.run_id # NoRun
                 /\ last_call'.run_id # NoRun =>
                        /\ last_call'.run_id \in RunsOfKey(key, last_call'.experiment_id)
                        /\ CacheHas(evaluation_cache', key)
                        /\ CacheGet(evaluation_cache', key) = last_call'.run_id]_vars

\* a lookup found a run by remote search after its cache entry had expired
C12_Witness ==
    /\ last_call.op = "get_evaluation_run_id"
    /\ last_call.searched
    /\ last_call.run_id # NoRun
    /\ CacheGet(evaluation_cache, last_call.key) = last_call.run_id

\* an evaluate_judge call for a judge with an experiment id whose key is not
\* cached, although the experiment holds a run with the three tags, and whose
\* lookup found nothing: the remote search has raised
EvaluateAfterFailedSearch ==
    /\ EvaluateCall
    /\ last_eval'.judge_id \in DOMAIN judges
    /\ judges[last_eval'.judge_id].experiment_id # ""
    /\ ~CacheHas(evaluation_cache, KeyOf(last_eval'))
    /\ RunsOfKey(KeyOf(last_eval'), judges[last_eval'.judge_id].experiment_id) # {}
    /\ last_eval'.found = NoRun

\* C13: a lookup whose remote search raises returns a miss and leaves the
\* evaluation cache as it was; an evaluate_judge call whose search raised
\* goes on as after a miss: it either starts a run of its own and invokes the
\* executor, caching the new run id when the executor finishes, or returns
\* the zero result with nothing cached.
C13_FailedSearchIsAMiss ==
    /\ [][(LookupStep /\ last_call'.searched /\ ~last_call'.search_ok) =>
            /\ last_call'.run_id = NoRun
            /\ evaluation_cache' = evaluation_cache]_vars
    /\ [][EvaluateAfterFailedSearch =>
            IF last_eval'.result.mlflow_run_id # NoRun
            THEN /\ last_eval'.created
                 /\ last_eval'.executed
                 /\ runs' = Append(runs, runs'[Len(runs')])
                 /\ last_eval'.result.mlflow_run_id = Len(runs')
                 /\ evaluation_cache' = CacheSet(evaluation_cache, KeyOf(last_eval'),
                                                 Len(runs'))
            ELSE /\ last_eval'.result = FailedEvaluation(last_eval'.judge_id)
                 /\ evaluation_cache' = evaluation_cache]_vars

\* an evaluate_judge call ran a fresh evaluation for a key that already had
\* a run in the experiment
C13_Witness ==
    /\ pc = "Evaluated"
    /\ Len(runs) = 2
    /\ SameKey(runs[1], runs[2])
    /\ runs[1].experiment_id # ""
    /\ last_eval.created
    /\ last_eval.result.mlflow_run_id = 2

\* an evaluate_judge call that failed: it found no run for its key and
\* either started no run or started one whose executor did not finish
EvaluateFailed ==
    /\ EvaluateCall
    /\ last_eval'.found = NoRun
    /\ ~last_eval'.created \/ ~runs'[Len(runs')].finished

\* C16: evaluate_judge raises nothing (the endpoint answers 200), and every
\* failed call (missing judge, missing scorer, no trace, run not started,
\* executor failure) returns judge version 0, no run id and total_traces 0
\* and leaves the evaluation cache as it was.
C16_FailureReturnsZeroResult ==
    /\ [][EvaluateCall => last_eval'.status = 200]_vars
    /\ [][EvaluateFailed =>
            /\ last_eval'.result.judge_id = last_eval'.judge_id
            /\ last_eval'.result.judge_version = 0
            /\ last_eval'.result.mlflow_run_id = NoRun
            /\ last_eval'.result.total_traces = 0
            /\ evaluation_cache' = evaluation_cache]_vars

\* an executor failure happened while another key was cached: the run was
\* started, the result is the zero result, the cache still has only the
\* other key
C16_Witness ==
    /\ pc = "Evaluated"
    /\ last_eval.created
    /\ ~runs[Len(runs)].finished
    /\ last_eval.result.mlflow_run_id = NoRun
    /\ evaluation_cache # <<>>
    /\ ~CacheHas(evaluation_cache, KeyOf(last_eval))

\* C15 as stated: a request whose judge does not exist is answered with
\* status 404, on the evaluate endpoint and on the judge endpoint alike
C15_MissingJudgeIs404 ==
    /\ (pc = "Evaluated" /\ last_eval.judge_id \notin DOMAIN judges) =>
           last_eval.status = 404
    /\ (pc = "Answered" /\ last_call.op = "GET judge" /\ ~last_call.found) =>
           last_call.status = 404

-----------------------------------------------------------------------------
(* Properties of evaluation requests with a remote search that answers     *)
(* (SpecSearch)                                                            *)

\* the set of trace ids a run was started for: the ids joined in its
\* dataset version are one-character strings
TraceSetOf(run) == {<<run.dataset_version[k]>> : k \in 2..Len(run.dataset_version)}

\* C19 as stated: requests for the same judge id, version and trace set that
\* run one after another, with the remote search answering, create at most
\* one evaluation run for that triple.
C19_OneRunPerTraceSet ==
    \A i, j \in 1..Len(runs) :
        (/\ runs[i].judge_id = runs[j].judge_id
         /\ runs[i].judge_version = runs[j].judge_version
         /\ TraceSetOf(runs[i]) = TraceSetOf(runs[j])) => i = j

\* C19 for trace-id lists that are equal up to order: at most one run per
\* judge id, version and dataset version
C19_OneRunPerDatasetVersion ==
    \A i, j \in 1..Len(runs) : SameKey(runs[i], runs[j]) => i = j

-----------------------------------------------------------------------------
(* Properties of alignment with failing trace fetches (SpecAlign)          *)

\* the ids of a list that are in trace cache tc, in the order of the list
CachedOf(tc, ids) == SelectSeq(ids, LAMBDA t : CacheHas(tc, t))

\* the get_trace loop of run_alignment has run
FetchStep == pc = "FetchingExamples" /\ pc' # pc

\* an evaluate_judge call inside run_alignment has returned
AlignmentEvaluateStep == pc \in {"EvaluatingBaseline", "EvaluatingNew"} /\ pc' # pc

NothingToAlign ==
    /\ pc \notin {"Idle", "Answered", "FetchingExamples"}
    /\ inv.judge_id \notin DOMAIN judges \/ inv.traces = <<>>

\* C17: when the judge is missing or no example resolves, run_alignment
\* fails with a not-found error (404) and has made no evaluation, no
\* optimizer call, no version, no invalidation and no tag; the failing step
\* leaves judges, runs, caches and backend traces as they were.
C17_NotFoundBeforeAnyWork ==
    /\ [](NothingToAlign =>
              /\ pc = "Failed"
              /\ inv.response.status = 404
              /\ inv.response.error = "ValueError"
              /\ inv.evaluations = <<>>
              /\ inv.calls = <<>>
              /\ inv.optimizer_calls = 0
              /\ inv.versions_created = 0
              /\ inv.invalidated = <<>>
              /\ inv.tag = <<>>)
    /\ [][(pc \in {"Idle", "FetchingExamples"} /\ pc' = "Failed") =>
              UNCHANGED <<judges, runs, trace_cache, evaluation_cache, assess>>]_vars

\* the alignment of "j3" failed because the fetch of its only example failed
C17_Witness ==
    /\ pc = "Failed"
    /\ inv.judge_id = "j3"
    /\ inv.steps = <<"FetchingExamples">>
    /\ inv.traces = <<>>

\* C18: every trace handed to the optimizer is the backend's copy as it is
\* after the baseline evaluation and the first invalidation, and the
\* optimizer gets the refetched trace of every id whose fetch answered, in
\* the order of the ids.
C18_OptimizerGetsRefetchedTraces ==
    /\ [](pc = "Optimizing" =>
              \A k \in 1..Len(inv.fresh_traces) :
                  /\ inv.fresh_traces[k].id \in Range(inv.trace_ids)
                  /\ inv.fresh_traces[k].gen = assess[inv.fresh_traces[k].id])
    /\ [][(pc = "Refetching" /\ pc' = "Optimizing") =>
              /\ TraceIdsOf(inv'.fresh_traces) = CachedOf(trace_cache', inv.trace_ids)
              /\ \A t \in Range(inv.trace_ids) :
                     t \notin world.flaky => CacheHas(trace_cache', t)]_vars

\* the optimizer is about to get a copy of a trace that is newer than the
\* copy the alignment started with
C18_Witness ==
    /\ pc = "Optimizing"
    /\ \E k \in 1..Len(inv.fresh_traces), m \in 1..Len(inv.traces) :
           /\ inv.fresh_traces[k].id = inv.traces[m].id
           /\ inv.fresh_traces[k].gen > inv.traces[m].gen

-----------------------------------------------------------------------------
(* Properties of get_alignment_comparison (SpecCompare)                    *)

\* a get_alignment_comparison call has returned
ComparisonStep ==
    pc = "Idle" /\ pc' = "Answered" /\ last_call'.op = "get_alignment_comparison"

\* C20: get_alignment_comparison for a missing judge or a judge below
\* version 2 fails with an error without calling get_examples, get_trace or
\* get_evaluation_run_id and leaves both caches as they were; a comparison
\* that is answered is for a judge of version 2 or more.
C20_ComparisonNeedsVersionTwo ==
    /\ [][(/\ ComparisonStep
            /\ \/ last_call'.judge_id \notin DOMAIN judges
               \/ judges[last_call'.judge_id].version < 2) =>
              /\ last_call'.status = 404
              /\ last_call'.error = "ValueError"
              /\ last_call'.reads = <<>>
              /\ trace_cache' = trace_cache
              /\ evaluation_cache' = evaluation_cache]_vars
    /\ []((pc = "Answered" /\ last_call.op = "get_alignment_comparison"
            /\ last_call.status = 200) =>
              /\ last_call.judge_id \in DOMAIN judges
              /\ judges[last_call.judge_id].version >= 2)

\* the comparison of "j1", at version 2, was answered
ComparisonAnswered ==
    /\ pc = "Answered"
    /\ last_call.op = "get_alignment_comparison"
    /\ last_call.status = 200

\* the comparison of "j3", at version 1 with one example, was refused while
\* traces were cached
C20_Witness ==
    /\ pc = "Answered"
    /\ last_call.op = "get_alignment_comparison"
    /\ last_call.judge_id = "j3"
    /\ last_call.status = 404
    /\ trace_cache # <<>>

\* the run id a lookup may return for a judge version and the examples of
\* the judge: the cached one, or one of the tagged runs of the experiment
KnownRun(run_id, judge_id, judge_version) ==
    LET key == CacheKey(judge_id, judge_version,
                        compute_dataset_version(Examples(judge_id)))
    IN  IF CacheHas(evaluation_cache, key)
        THEN run_id = CacheGet(evaluation_cache, key)
        ELSE run_id \in RunsOfKey(key, judges[judge_id].experiment_id)

\* the comparison got as far as the two run-id lookups
LookedUpRuns == ComparisonStep /\ Len(last_call'.reads) >= 4

\* C21: get_alignment_comparison creates no run, attaches no judge feedback
\* and changes no judge; the run ids it reports for version - 1 and version
\* are the cached ones or tagged runs found by the search; when either is
\* absent it fails with 'evaluation runs not found' (404) and returns
\* neither rows nor metrics.
C21_ComparisonNeverEvaluates ==
    /\ [][ComparisonStep =>
            /\ runs' = runs
            /\ assess' = assess
            /\ judges' = judges]_vars
    /\ [][LookedUpRuns =>
            LET judge_id == last_call'.judge_id
                version == judges[judge_id].version
            IN  /\ last_call'.prev_run_id # NoRun =>
                       KnownRun(last_call'.prev_run_id, judge_id, version - 1)
                /\ last_call'.curr_run_id # NoRun =>
                       KnownRun(last_call'.curr_run_id, judge_id, version)
                /\ (last_call'.prev_run_id = NoRun \/ last_call'.curr_run_id = NoRun) =>
                       /\ last_call'.status = 404
                       /\ last_call'.detail = "no runs"
                       /\ last_call'.comparisons = <<>>
                       /\ last_call'.metrics = NoMetrics]_vars

\* a comparison failed because only the run of the previous version exists
C21_Witness ==
    /\ pc = "Answered"
    /\ last_call.op = "get_alignment_comparison"
    /\ last_call.detail = "no runs"
    /\ last_call.prev_run_id # NoRun
    /\ last_call.curr_run_id = NoRun
    /\ Len(runs) = 1

\* the three feedbacks of trace t are present and free of errors
Complete(t) ==
    /\ world.feedback[t].human.present
    /\ world.feedback[t].previous.present
    /\ world.feedback[t].new.present
    /\ ~world.feedback[t].human.error
    /\ ~world.feedback[t].previous.error
    /\ ~world.feedback[t].new.error

\* C22: in an answered comparison every row is for an example trace whose
\* human, previous-version and current-version feedbacks are all present
\* and error-free and carries these feedbacks; every fetched example trace
\* with all three present and error-free has exactly one row; total_samples
\* is the number of rows.
C22_RowsHaveAllThreeFeedbacks ==
    ComparisonAnswered =>
        LET rows == last_call.comparisons
            ids == Examples(last_call.judge_id)
        IN  /\ \A k \in 1..Len(rows) :
                   /\ rows[k].trace_id \in Range(ids)
                   /\ Complete(rows[k].trace_id)
                   /\ rows[k].human_feedback = world.feedback[rows[k].trace_id].human
                   /\ rows[k].previous_judge_feedback =
                          world.feedback[rows[k].trace_id].previous
                   /\ rows[k].new_judge_feedback = world.feedback[rows[k].trace_id].new
            /\ \A t \in Range(ids) :
                   (CacheHas(trace_cache, t) /\ Complete(t)) =>
                       Cardinality({k \in 1..Len(rows) : rows[k].trace_id = t}) = 1
            /\ last_call.metrics.total_samples = Len(rows)

\* an answered comparison with two rows, where other traces were left out
\* for an erroneous or a missing feedback
C22_Witness ==
    /\ ComparisonAnswered
    /\ Len(last_call.comparisons) = 2
    /\ world.feedback[TraceId(3)].previous.error
    /\ ~world.feedback[TraceId(6)].previous.present
    /\ CacheHas(trace_cache, TraceId(3))

\* C23: once both runs are found, get_alignment_comparison succeeds exactly
\* when at least one fetched example trace has all three feedbacks present
\* and error-free, however many others are skipped, and otherwise fails
\* with 'no valid examples' (404).
C23_SkippedItemsAreNotFatal ==
    [][(/\ LookedUpRuns
        /\ last_call'.prev_run_id # NoRun
        /\ last_call'.curr_run_id # NoRun) =>
          /\ last_call'.status = 200 <=>
                 \E t \in Range(Examples(last_call'.judge_id)) :
                     CacheHas(trace_cache', t) /\ Complete(t)
          /\ last_call'.status = 200 => last_call'.comparisons # <<>>
          /\ last_call'.status # 200 =>
                 /\ last_call'.status = 404
                 /\ last_call'.detail = "no rows"
                 /\ last_call'.comparisons = <<>>]_vars

\* a comparison was answered although one trace could not be fetched and
\* most of the others were skipped
C23_Witness ==
    /\ ComparisonAnswered
    /\ ~CacheHas(trace_cache, TraceId(1))
    /\ Len(last_call.comparisons) = 2

-----------------------------------------------------------------------------
(* Properties of invalidate_judge_evaluations (SpecKeys)                   *)

\* the evaluation-cache keys that belong to a judge id
KeysOfJudge(judge_id) ==
    {CacheKey(judge_id, judge_version, compute_dataset_version(trace_ids)) :
        judge_version \in KeyVersions, trace_ids \in KeyLists}

-----------------------------------------------------------------------------
(* Properties of the confusion matrix and the rates (SpecMetrics)          *)

\* the matrix of the label pair in fp has been computed
MatrixComputed ==
    pc = "Answered" /\ last_call.op = "calculate_confusion_matrix" /\ last_call.error = ""

\* the positions of the label pair in fp whose human label is (is not) a
\* pass and whose judge label is (is not) a pass
PairsWhere(human_pass, judge_pass) ==
    {k \in 1..Len(fp.human_labels) :
        /\ (fp.human_labels[k] \in {"pass", "PASS"}) = human_pass
        /\ (fp.judge_results[k] \in {"pass", "PASS"}) = judge_pass}

\* C24: calculate_confusion_matrix counts every pair of two sequences of
\* equal length in exactly one cell: human pass and judge pass in
\* true_positive, human pass and judge fail in false_negative, human fail
\* and judge pass in false_positive, both fail in true_negative, a label
\* being a pass iff it is "pass" in any letter case; the four cells add up
\* to the number of pairs.
C24_EveryPairInOneCell ==
    MatrixComputed =>
        /\ last_call.matrix.true_positive = Cardinality(PairsWhere(TRUE, TRUE))
        /\ last_call.matrix.false_negative = Cardinality(PairsWhere(TRUE, FALSE))
        /\ last_call.matrix.false_positive = Cardinality(PairsWhere(FALSE, TRUE))
        /\ last_call.matrix.true_negative = Cardinality(PairsWhere(FALSE, FALSE))
        /\ last_call.matrix.true_positive + last_call.matrix.false_negative
             + last_call.matrix.false_positive + last_call.matrix.true_negative
             = Len(fp.human_labels)

\* the scenario of three pairs with one pair in each of true_positive,
\* false_negative and false_positive, and one agreement
C24_Witness ==
    /\ MatrixComputed
    /\ fp.human_labels = <<"pass", "fail", "pass">>
    /\ fp.judge_results = <<"pass", "pass", "fail">>
    /\ last_call.matrix = [true_positive |-> 1, false_negative |-> 1,
                           false_positive |-> 1, true_negative |-> 0]
    /\ last_call.agreement_count = 1

\* the rate with numerator num and denominator den, as C25 states it
RateOf(num, den) == IF den = 0 THEN Zero ELSE Fraction(num, den)

\* C25: every derived rate is 0 when its denominator is 0, with no division
\* by zero, and numerator / denominator otherwise: accuracy over all four
\* cells, precision over tp + fp, recall over tp + fn, the agreement rate
\* over total_samples.
C25_RatesWithZeroDenominator ==
    MatrixComputed =>
        LET cm == last_call.matrix
        IN  /\ last_call.accuracy =
                   RateOf(cm.true_positive + cm.true_negative,
                          cm.true_positive + cm.false_negative
                          + cm.false_positive + cm.true_negative)
            /\ last_call.precision =
                   RateOf(cm.true_positive, cm.true_positive + cm.false_positive)
            /\ last_call.recall =
                   RateOf(cm.true_positive, cm.true_positive + cm.false_negative)
            /\ last_call.agreement_rate =
                   RateOf(last_call.agreement_count, last_call.total_samples)

\* the rates of an empty pair of sequences were computed: every denominator
\* is 0
C25_Witness ==
    /\ MatrixComputed
    /\ fp.human_labels = <<>>
    /\ last_call.total_samples = 0
    /\ last_call.accuracy = Zero
    /\ last_call.agreement_rate = Zero

-----------------------------------------------------------------------------
(* Properties of compute_dataset_version (SpecFP)                          *)

BothComputed == fp[1].called /\ fp[2].called

\* C9 as stated: two trace-id lists with the same set of elements get the
\* same dataset version.
C9_SameSetSameVersion ==
    (BothComputed /\ Range(fp[1].trace_ids) = Range(fp[2].trace_ids)) =>
        fp[1].version = fp[2].version

\* C10 as stated: two trace-id lists with different sets of elements get
\* different dataset versions.
C10_DifferentSetDifferentVersion ==
    (BothComputed /\ Range(fp[1].trace_ids) # Range(fp[2].trace_ids)) =>
        fp[1].version # fp[2].version


-----------------------------------------------------------------------------
(* Properties of the clocked caches (SpecCache)                            *)

\* the keys of a clocked cache
KeysIn(c) == {c[i].key : i \in 1..Len(c)}

\* the entries of `before` that a store of key k at time t removed
Evicted(before, after, k) ==
    {i \in 1..Len(before) : before[i].key # k /\ before[i].key \notin KeysIn(after)}

\* each removed entry had expired, or else nothing had expired, the cache
\* was full and the entry was the least recently used one
EvictionRule(before, after, k, t, maxsize) ==
    \A i \in Evicted(before, after, k) :
        \/ ~(t < before[i].expires)
        \/ /\ \A n \in 1..Len(before) : t < before[n].expires
           /\ Len(before) = maxsize
           /\ i = 1

TraceStoreStep ==
    /\ pc = "Idle" /\ pc' = "Answered"
    /\ last_call'.op = "get_trace" /\ ~last_call'.hit

EvaluationStoreStep ==
    /\ pc = "Idle" /\ pc' = "Answered"
    /\ \/ last_call'.op = "cache_evaluation_run_id"
       \/ /\ last_call'.op = "get_evaluation_run_id"
          /\ ~last_call'.hit /\ last_call'.value # NoRun

\* what a store into either cache does to the two caches
StoreRule ==
    /\ TraceStoreStep =>
        /\ EvictionRule(trace_cache, trace_cache', last_call'.key,
                        last_call'.t1, MaxTraceEntries)
        /\ last_call'.key \in KeysIn(trace_cache')
        /\ evaluation_cache' = evaluation_cache
    /\ EvaluationStoreStep =>
        /\ EvictionRule(evaluation_cache, evaluation_cache', last_call'.key,
                        last_call'.t1, MaxEvalEntries)
        /\ last_call'.key \in KeysIn(evaluation_cache')
        /\ trace_cache' = trace_cache

\* C26: the trace cache never holds more entries than its capacity and the
\* evaluation cache never more than its own; a store removes only expired
\* entries or, when nothing has expired and the cache is full, the least
\* recently used entry; a store into one cache leaves the other as it was.
C26_CachesAreBounded ==
    /\ [](Len(trace_cache) <= MaxTraceEntries /\ Len(evaluation_cache) <= MaxEvalEntries)
    /\ [][StoreRule]_vars

\* a store into the full trace cache, nothing expired, has removed the least
\* recently used entry, which was not the oldest one, while the evaluation
\* cache was full
C26_Witness ==
    /\ pc = "Answered" /\ last_call.op = "get_trace" /\ ~last_call.hit
    /\ Len(last_call.traces_before) = MaxTraceEntries
    /\ \A n \in 1..Len(last_call.traces_before) :
           last_call.t1 < last_call.traces_before[n].expires
    /\ last_call.traces_before[1].key \notin KeysIn(trace_cache)
    /\ \E n \in 2..Len(last_call.traces_before) :
           last_call.traces_before[n].expires < last_call.traces_before[1].expires
    /\ Len(trace_cache) = MaxTraceEntries
    /\ Len(evaluation_cache) = MaxEvalEntries


\* the entry of key k in clocked cache c, if there is one
EntriesOf(c, k) == {c[i] : i \in {n \in 1..Len(c) : c[n].key = k}}

\* a lookup in the trace cache or in the evaluation cache
ClockedLookupStep(op) ==
    /\ pc = "Idle" /\ pc' = "Answered"
    /\ last_call'.op = op

\* what a lookup of key k in cache `before`, begun at t0 and answered at
\* t1, may do: an entry it serves is one whose lifetime had not elapsed and
\* whose lifetime it leaves as it was; an entry whose lifetime had elapsed
\* when the lookup began is not a hit
LookupRule(before, after, answer) ==
    /\ (answer.hit /\ answer.error = "") =>
           \E e \in EntriesOf(before, answer.key) :
               /\ e.value = answer.value
               /\ answer.t1 < e.expires
               /\ e \in EntriesOf(after, answer.key)
    /\ (\E e \in EntriesOf(before, answer.key) : ~(answer.t0 < e.expires)) =>
           ~answer.hit

\* the cache as it was without key k
Without(c, k) == SelectSeq(c, LAMBDA e : e.key # k)

\* C27: a lookup serves an entry only while its lifetime (TRACE_TTL for
\* traces, EVALUATION_TTL for run ids) has not elapsed since it was stored,
\* and serving it leaves its lifetime as it was; a lookup begun after the
\* lifetime elapsed is a miss that fetches the trace, or searches for the
\* run, and leaves the same live entries as it does when the key was never
\* stored; a trace entry's lifetime ends TRACE_TTL after it was fetched.
C27_ExpiredEntriesAreNotServed ==
    /\ [][ClockedLookupStep("get_trace") =>
            /\ LookupRule(trace_cache, trace_cache', last_call')
            /\ ~last_call'.hit =>
                   /\ last_call'.value = last_call'.t1
                   /\ ttl_expire(trace_cache', last_call'.t1) =
                      ttl_expire(get_trace_clocked(
                          Without(trace_cache, last_call'.key), last_call'.key,
                          last_call'.t0, last_call'.t1, last_call'.t1,
                          MaxTraceEntries).cache, last_call'.t1)]_vars
    /\ [][ClockedLookupStep("get_evaluation_run_id") =>
            /\ LookupRule(evaluation_cache, evaluation_cache', last_call')
            /\ ~last_call'.hit =>
                   ttl_expire(evaluation_cache', last_call'.t1) =
                   ttl_expire(get_evaluation_run_id_clocked(
                          Without(evaluation_cache, last_call'.key), last_call'.key,
                          last_call'.t0, last_call'.t1, last_call'.value,
                          MaxEvalEntries).cache, last_call'.t1)]_vars
    /\ [](\A i \in 1..Len(trace_cache) : trace_cache[i].expires = trace_cache[i].value + TRACE_TTL)

\* a trace that was read while cached is looked up again after its lifetime
\* has elapsed and is fetched anew
C27_Witness ==
    /\ pc = "Answered" /\ last_call.op = "get_trace" /\ ~last_call.hit
    /\ \E e \in EntriesOf(last_call.traces_before, last_call.key) :
           /\ ~(last_call.t0 < e.expires)
           /\ last_call.value > e.value
    /\ \E e \in EntriesOf(evaluation_cache, CacheKey("j1", 1, compute_dataset_version(<<OtherTrace>>))) :
           e.expires <= last_call.t1


\* C28: whatever the order of lookups, stores, invalidations and the passing
\* of time, no call on the caches fails: a lookup comes back with a stored
\* value or with a miss, and an invalidation completes.
C28_NoCacheOperationFails ==
    (pc = "Answered" /\ "error" \in DOMAIN last_call) => last_call.error = ""


-----------------------------------------------------------------------------
(* Properties of CustomPromptJudge.optimize (SpecOptimize)                 *)

OptimizeAnswered == pc = "Answered" /\ last_call.op = "optimize"

-----------------------------------------------------------------------------
(* Properties of run_alignment when traces are missing (SpecAlign)         *)

\* run_alignment has handed its traces to judge.optimize
OptimizeReached == \E k \in 1..Len(inv.steps) : inv.steps[k] = "Optimizing"

\* C34: when fewer than MIN_EXAMPLES_FOR_OPTIMIZATION traces are available
\* to the optimizer, run_alignment fails with the insufficient-data error
\* (ValueError, 404) and not with the optimization-failure error; once the
\* sufficiency check has passed and the optimize step is reached, the
\* optimizer collaborator is invoked.
C34_TooFewTracesIsInsufficientData ==
    /\ (pc = "Failed" /\ OptimizeReached
            /\ Len(inv.fresh_traces) < MIN_EXAMPLES_FOR_OPTIMIZATION) =>
           /\ inv.response.error = "ValueError"
           /\ inv.response.status = 404
    /\ OptimizeReached => inv.optimizer_calls = 1


-----------------------------------------------------------------------------
(* Agreement counts against the confusion matrix (SpecMetrics)             *)

\* every label of the two sequences is 'pass' or 'fail' up to case
PassFailOnly ==
    /\ \A k \in 1..Len(fp.human_labels) : lower(fp.human_labels[k]) \in {"pass", "fail"}
    /\ \A k \in 1..Len(fp.judge_results) : lower(fp.judge_results[k]) \in {"pass", "fail"}

\* C35: the agreement count is at most true_positive + true_negative of the
\* confusion matrix of the same labels, which is at most total_samples; the
\* two are equal when every label is 'pass' or 'fail' up to case.
C35_AgreementWithinMatrix ==
    MatrixComputed =>
        /\ last_call.agreement_count <=
               last_call.matrix.true_positive + last_call.matrix.true_negative
        /\ last_call.matrix.true_positive + last_call.matrix.true_negative <=
               last_call.total_samples
        /\ PassFailOnly =>
               last_call.agreement_count =
                   last_call.matrix.true_positive + last_call.matrix.true_negative

\* labels that agree only up to case were counted, and a label that is
\* neither 'pass' nor 'fail' kept the count below the matrix diagonal
C35_Witness ==
    /\ MatrixComputed
    /\ \E k \in 1..Len(fp.human_labels) :
           /\ fp.human_labels[k] # fp.judge_results[k]
           /\ lower(fp.human_labels[k]) = lower(fp.judge_results[k])
    /\ 0 < last_call.agreement_count
    /\ last_call.agreement_count <
           last_call.matrix.true_positive + last_call.matrix.true_negative
    /\ last_call.matrix.true_positive + last_call.matrix.true_negative <
           last_call.total_samples


-----------------------------------------------------------------------------
(* Properties of a comparison after an alignment (SpecAligned)             *)

\* the finished runs of the aligned judge at the given version that are in
\* the evaluation cache under their key
StoredRuns(judge_version) ==
    {n \in 1..Len(runs) :
        /\ runs[n].judge_id = AlignedJudge /\ runs[n].judge_version = judge_version
        /\ runs[n].finished
        /\ LET key == CacheKey(AlignedJudge, judge_version, runs[n].dataset_version)
           IN  CacheHas(evaluation_cache, key) /\ CacheGet(evaluation_cache, key) = n}

\* an alignment has taken the judge to its new version, and its baseline
\* and new-version evaluations have stored their runs under the same
\* dataset version
AlignmentStoredBothRuns ==
    /\ judges[AlignedJudge].version = MaxVersion
    /\ \E p \in StoredRuns(MaxVersion - 1), c \in StoredRuns(MaxVersion) :
           runs[p].dataset_version = runs[c].dataset_version

\* C39: after an alignment whose two evaluations stored their runs,
\* get_alignment_comparison looks the runs up under the keys the alignment
\* used and finds both, also when an example did not resolve to a trace
\* during the alignment.
C39_ComparisonFindsAlignmentRuns ==
    (/\ pc = "Answered" /\ last_call.op = "get_alignment_comparison"
     /\ AlignmentStoredBothRuns) =>
        /\ last_call.prev_run_id \in StoredRuns(MaxVersion - 1)
        /\ last_call.curr_run_id \in StoredRuns(MaxVersion)

====
